---- MODULE Spec2Model ----
(***************************************************************************)
(* A model of the muchas-radio backend: the per-source stream connection   *)
(* tracker, the stream proxy handler, the listener-session registry and    *)
(* its broadcast, the queue listing, the storage eviction and the playback *)
(* monitor.                                                                *)
(*                                                                         *)
(* Conventions.  Sizes are counted in MiB.  File-system calls are taken to *)
(* succeed (no I/O error); engine commands and writes to listener sessions *)
(* may fail, as the code handles those outcomes explicitly.  A sequence of *)
(* statements without an await point, and a sequence of statements run     *)
(* under an exclusive lock that only touches what the lock protects, is    *)
(* one step.  The order in which waiting tasks obtain a lock is left open  *)
(* (every order tokio can produce is included).                            *)
(***************************************************************************)
EXTENDS Integers, Sequences, FiniteSets, TLC

VARIABLES
    \* IpConnectionTracker (state.rs)
    connections,    \* HashMap<String, AtomicUsize>: a function ip -> count
    rwReaders,      \* tasks holding a read guard of connections
    pc,             \* position of every stream task / connection handler
    cur,            \* the local `current` of try_acquire (state.rs:32)
    ipOf,           \* the source address of each task
    accepted,       \* try_acquire returned true for the task
    releases,       \* how many times release(ip) ran for the task
    released,       \* TrackedStream.released (stream.rs:46)
    detached,       \* the release runs in the task spawned by Drop
    outcome,        \* how the connection ended
    \* the audio engine (MPD), seen through its command protocol
    mpdQueue,       \* the engine's queue: a sequence of [id, file]
    mpdCurrent,     \* id of the current song, or NoSong
    mpdState,       \* "play" | "pause" | "stop"
    \* AppState.tracks_metadata
    tracks_metadata,
    \* AppState.ws_sessions and the tasks using it
    ws_sessions,    \* Vec<SessionWrapper>: the sequence of session ids
    wsLock,         \* "free", or "broadcast" while broadcast_message holds the Mutex
    wsPc,           \* position of every websocket handler
    current_count,  \* the local current_count of websocket (stream.rs:94)
    nextSessionId,  \* the next fresh session id (Uuid::new_v4)
    closed,         \* sessions whose channel is closed: a write to them fails
    ended,          \* sessions whose task has called remove_session
    bcPc,           \* position of broadcast_message
    bcIdx,          \* its loop index
    to_remove,      \* its local to_remove
    bcStart,        \* the registry when the delivery started
    failedWrites,   \* the sessions whose write failed in this delivery
    \* calls of get_queue
    gqSong,         \* the response of the CurrentSong command
    gqDone,         \* get_queue has returned
    gqResult,       \* what it returned
    \* the uploads directory and the storage budget
    files,          \* a function: file name -> [size, mtime]
    max_storage,    \* get_max_total_storage()
    \* calls of free_up_space
    fsNeeded,       \* the argument needed_size
    fsDone,         \* free_up_space has returned
    fsBefore,       \* the directory when it was called
    fsResult,       \* [ok: what it returned, deleted: the files it removed, in order]
    mpdNextId,      \* the id the engine gives to the next song added to its queue
    \* one request handled by upload_music
    upPc,           \* where the handler is
    upSize,         \* the size of the incoming file
    upStart,        \* the uploads directory when the handler began its storage check
    upDeleted,      \* the files deleted for this request, in order: [file, by]
    upFile,         \* the file the handler wrote (an Option)
    upNotes,        \* the notifications broadcast for this request
    upResponse,     \* the response returned
    rlResult,       \* what the last remove_last_track_from_queue returned: [ok, removed]
    \* the playback monitor
    previous_track_filename,
    monPc,          \* where the monitor is in its tick
    monCurrent,     \* `current`: the CurrentTrack resolved at the start of the tick
    ticked,         \* a tick has run to its end
    tickPrev,       \* previous_track_filename when the tick compared it
    tickFile,       \* current_track_filename of the tick
    tickQueue,      \* the engine queue when the tick compared the filenames
    tickCmds,       \* the engine commands the tick issued after its status snapshot, in order
    tickNotes,      \* the notifications the tick broadcast, in order
    \* one request handled by add_to_queue (playlist.rs)
    aqPc,           \* where the handler is
    aqTrackId,      \* request.track_id
    aqTrack,        \* the track cloned from the registry (an Option)
    aqNotes,        \* the notifications broadcast for this request
    aqResponse,     \* the response returned
    \* calls of add_file_to_mpd
    afFile,         \* the argument filename
    afFailAt,       \* the first engine command that fails (NoFailure: none)
    afCsOk,         \* whether the CurrentSong command answers
    afBefore,       \* the engine when it was called
    afDone,         \* add_file_to_mpd has returned
    afResult,       \* [ok: it returned Ok(()), play: it issued Play::current()]
    \* file names given to uploads
    fnId,           \* the id generated for the upload
    fnSanitized,    \* the sanitized name of the incoming file
    fnFinal,        \* the stored file name (an Option)
    \* the engine lock and the registry lock, and the tasks that take them
    engineHolders,  \* tasks holding a guard of AppState.mpd_client
    metaReaders,    \* tasks holding a read guard of AppState.tracks_metadata
    metaWriters,    \* tasks holding its write guard
    script,         \* what each task has still to do in its operation
    lkOp,           \* the operation each task runs
    issued,         \* the engine commands each task has issued under its guard
    \* one call of get_current_track
    ctElapsed,      \* Status.elapsed as the engine reported it (an Option)
    ctDone,         \* the call has returned
    ctResult,       \* what it returned
    \* upload requests served at the same time
    cuPc,           \* position of every such upload_music handler
    cuSize,         \* the size of its incoming file
    cuFile,         \* the file it has written (an Option)
    cuResponse      \* its answer

trackerVars == <<connections, rwReaders, pc, cur, ipOf, accepted, releases, released, detached, outcome>>
engineVars == <<mpdQueue, mpdCurrent, mpdState, mpdNextId>>
wsVars == <<ws_sessions, wsLock, wsPc, current_count, nextSessionId, closed, ended, bcPc, bcIdx, to_remove, bcStart, failedWrites>>
callVars == <<gqSong, gqDone, gqResult, fsNeeded, fsDone, fsBefore, fsResult>>
storageVars == <<files, max_storage>>
uploadVars == <<upPc, upSize, upStart, upDeleted, upFile, upNotes, upResponse, rlResult>>
monitorVars == <<previous_track_filename, monPc, monCurrent, ticked, tickPrev, tickFile, tickQueue, tickCmds, tickNotes>>
clientVars == <<aqPc, aqTrackId, aqTrack, aqNotes, aqResponse>>
afVars == <<afFile, afFailAt, afCsOk, afBefore, afDone, afResult>>
fnVars == <<fnId, fnSanitized, fnFinal>>
lockVars == <<engineHolders, metaReaders, metaWriters, script, lkOp, issued>>
ctVars == <<ctElapsed, ctDone, ctResult>>
cuVars == <<cuPc, cuSize, cuFile, cuResponse>>
extraVars == <<clientVars, afVars, fnVars, lockVars, ctVars, cuVars>>
handlerVars == <<uploadVars, monitorVars, extraVars>>
vars == <<trackerVars, engineVars, tracks_metadata, wsVars, callVars, storageVars, handlerVars>>

exceptTracker == <<engineVars, tracks_metadata, wsVars, callVars, storageVars, handlerVars>>
exceptEngine == <<trackerVars, tracks_metadata, wsVars, callVars, storageVars, handlerVars>>
exceptWs == <<trackerVars, engineVars, tracks_metadata, callVars, storageVars, handlerVars>>
exceptCalls == <<trackerVars, engineVars, tracks_metadata, wsVars, storageVars, handlerVars>>
exceptCallsAndStorage == <<trackerVars, engineVars, tracks_metadata, wsVars, handlerVars>>
exceptUpload == <<trackerVars, wsVars, callVars, monitorVars, extraVars>>
exceptMonitor == <<trackerVars, tracks_metadata, wsVars, callVars, storageVars, uploadVars, extraVars>>

-----------------------------------------------------------------------------
(* Bounds of the model *)

NumTasks == 6
NumConns == 2
NumWsTasks == 2
MaxSessionIds == 4
MaxQueueLen == 3
MaxSongId == 4
MaxMtime == 2
NumClients == 2
MaxNameLen == 5

(* Program constants *)

MAX_STREAMS_PER_IP == 5
MAX_CONNECTIONS == 100
MAX_FILE_SIZE == 100
DEFAULT_MAX_TOTAL_STORAGE == 300

\* AtomicUsize arithmetic wraps; the width is scaled down to 16 bits.
UsizeModulus == 65536

\* Option<T> is a sequence of at most one T.
None == <<>>
Some(x) == <<x>>

\* The engine numbers the songs of its queue from 1; 0 is no song.
NoSong == 0

Tasks == 1..NumTasks
Conns == 1..NumConns
WsTasks == 1..NumWsTasks

-----------------------------------------------------------------------------
(* File names are sequences of characters. *)

Max(S) == CHOOSE x \in S : \A y \in S : y <= x

\* Path::file_stem: the name before its final '.', or the whole name when it
\* has no '.' or only a leading one.
FileStem(f) ==
    LET dots == {i \in 1..Len(f) : f[i] = "."}
    IN  IF dots = {} \/ Max(dots) = 1 THEN f ELSE SubSeq(f, 1, Max(dots) - 1)

\* str::split('_').next(): the part before the first '_' (all of it if none).
FirstSegment(s) ==
    LET us == {i \in 1..Len(s) : s[i] = "_"}
    IN  IF us = {} THEN s ELSE SubSeq(s, 1, (CHOOSE i \in us : \A j \in us : i <= j) - 1)

\* The track id song_in_queue_to_track takes from the file name
\* (mpd_manager.rs:335-345).
TrackIdOf(filename) == FirstSegment(FileStem(filename))

-----------------------------------------------------------------------------
(* The audio engine, as its command protocol shows it. *)

\* File names used by the model: an uploaded file "{id}_{name}.{ext}", one
\* whose original name holds a '_' itself, and a file without a '_'.
FileA == <<"a", "_", "x", ".", "m">>
FileB == <<"b", "_", "y", "_", "z", ".", "m">>
FileC == <<"c", ".", "m">>
FileNames == {FileA, FileB, FileC}

Song(i, f) == [id |-> i, file |-> f]

\* The response of the CurrentSong command when it succeeds.
CurrentSongOf(queue, current) ==
    IF \E i \in 1..Len(queue) : queue[i].id = current
      THEN Some(queue[CHOOSE i \in 1..Len(queue) : queue[i].id = current])
      ELSE None

\* client.command(CurrentSong).await.ok().flatten(): a failed command reads
\* as no current song.
CurrentSongCmd(queue, current, ok) == IF ok THEN CurrentSongOf(queue, current) ELSE None

\* Mutant: the position found is that of the first entry, whatever the id.
PositionOfIdFirst(queue, id) == 0

\* Iterator::position: the 0-based index of the first entry with this id,
\* or -1 for Option::None.
PositionOfId(queue, id) ==
    LET hits == {i \in 1..Len(queue) : queue[i].id = id}
    IN  IF hits = {} THEN -1 ELSE (CHOOSE i \in hits : \A j \in hits : i <= j) - 1

\* The engine finishes the current song and goes on to the next one; after
\* the last song of the queue it stops and has no current song.
EngineAdvance ==
    /\ mpdState = "play"
    /\ mpdCurrent # NoSong
    /\ LET p == PositionOfId(mpdQueue, mpdCurrent)
       IN  IF p + 1 < Len(mpdQueue)
             THEN /\ mpdCurrent' = mpdQueue[p + 2].id
                  /\ mpdState' = mpdState
             ELSE /\ mpdCurrent' = NoSong
                  /\ mpdState' = "stop"
    /\ UNCHANGED <<mpdQueue, mpdNextId, exceptEngine>>

\* The engine states a run may start from: up to two queued songs, any of
\* them (or none) current.
EngineStarts ==
    {e \in [queue : {<<>>, <<Song(1, FileA)>>, <<Song(1, FileA), Song(2, FileC)>>},
            current : {NoSong, 1, 2},
            state : {"play", "pause", "stop"}] :
        /\ e.current # NoSong => e.current <= Len(e.queue)
        /\ e.current = NoSong => e.state = "stop"}

-----------------------------------------------------------------------------
(* Queue Orchestrator: get_queue (mpd_manager.rs) *)

\* song_in_queue_to_track: the stored Track of the id, else one built from
\* the file name.
SongInQueueToTrack(song, metadata) ==
    LET track_id == TrackIdOf(song.file)
    IN  IF track_id \in DOMAIN metadata
          THEN metadata[track_id]
          ELSE [id |-> track_id, filename |-> song.file]

\* Mutant: the position of the current song itself, not the one after it.
CurrentPositionOfCurrent(queue, current_song) ==
    IF current_song # None
      THEN IF PositionOfId(queue, current_song[1].id) >= 0
             THEN PositionOfId(queue, current_song[1].id)
             ELSE 0
      ELSE 0

\* mpd_manager.rs:241-249
CurrentPosition(queue, current_song) ==
    IF current_song # None
      THEN IF PositionOfId(queue, current_song[1].id) >= 0
             THEN PositionOfId(queue, current_song[1].id) + 1
             ELSE 0
      ELSE 0

\* Mutant: the loop keeps the entries strictly after current_position.
RECURSIVE GetQueueLoopStrict(_, _, _, _, _, _)
GetQueueLoopStrict(queue, pos, current_position, coming_up_index, items, metadata) ==
    IF pos >= Len(queue) THEN items
    ELSE IF pos > current_position
      THEN GetQueueLoopStrict(queue, pos + 1, current_position, coming_up_index + 1,
                              Append(items, [position |-> coming_up_index,
                                             track |-> SongInQueueToTrack(queue[pos + 1], metadata)]),
                              metadata)
      ELSE GetQueueLoopStrict(queue, pos + 1, current_position, coming_up_index, items, metadata)

\* The loop of mpd_manager.rs:253-266, pos counting from 0.
RECURSIVE GetQueueLoop(_, _, _, _, _, _)
GetQueueLoop(queue, pos, current_position, coming_up_index, items, metadata) ==
    IF pos >= Len(queue) THEN items
    ELSE IF pos >= current_position
      THEN GetQueueLoop(queue, pos + 1, current_position, coming_up_index + 1,
                        Append(items, [position |-> coming_up_index,
                                       track |-> SongInQueueToTrack(queue[pos + 1], metadata)]),
                        metadata)
      ELSE GetQueueLoop(queue, pos + 1, current_position, coming_up_index, items, metadata)

\* get_queue: Err when the Queue command fails, else the upcoming list.
GetQueue(queue, queue_ok, current_song, metadata) ==
    IF ~queue_ok
      THEN [ok |-> FALSE, items |-> <<>>]
      ELSE [ok |-> TRUE,
            items |-> GetQueueLoop(queue, 0, CurrentPosition(queue, current_song), 1, <<>>, metadata)]

-----------------------------------------------------------------------------
(* Connection Admission Controller: IpConnectionTracker (state.rs) *)

max_per_ip == MAX_STREAMS_PER_IP

Put(map, k, v) == [x \in DOMAIN map \cup {k} |-> IF x = k THEN v ELSE map[x]]
Remove(map, k) == [x \in DOMAIN map \ {k} |-> map[x]]

FetchAdd(c) == (c + 1) % UsizeModulus
FetchSub(c) == (c + UsizeModulus - 1) % UsizeModulus

\* state.rs:30-32, 39: take the read guard; with an entry, load its count,
\* without one drop the guard and go for the write guard.
TryAcquireRead(t) ==
    /\ pc[t] = "start"
    /\ IF ipOf[t] \in DOMAIN connections
         THEN /\ rwReaders' = rwReaders \cup {t}
              /\ cur' = [cur EXCEPT ![t] = connections[ipOf[t]]]
              /\ pc' = [pc EXCEPT ![t] = "acq_check"]
         ELSE /\ pc' = [pc EXCEPT ![t] = "acq_write"]
              /\ UNCHANGED <<rwReaders, cur>>
    /\ UNCHANGED <<connections, ipOf, accepted, releases, released, detached, outcome>>
    /\ UNCHANGED exceptTracker

\* state.rs:33-37: the check of the loaded count, then the increment; the
\* read guard is dropped on return.
TryAcquireCheck(t) ==
    /\ pc[t] = "acq_check"
    /\ rwReaders' = rwReaders \ {t}
    /\ cur' = [cur EXCEPT ![t] = 0]
    /\ IF cur[t] >= max_per_ip
         THEN /\ pc' = [pc EXCEPT ![t] = "rejected"]
              /\ UNCHANGED <<connections, accepted>>
         ELSE /\ connections' = [connections EXCEPT ![ipOf[t]] = FetchAdd(@)]
              /\ accepted' = [accepted EXCEPT ![t] = TRUE]
              /\ pc' = [pc EXCEPT ![t] = "held"]
    /\ UNCHANGED <<ipOf, releases, released, detached, outcome>>
    /\ UNCHANGED exceptTracker

\* state.rs:42-50: under the write guard, insert the entry if missing, check
\* and increment.
TryAcquireWrite(t) ==
    /\ pc[t] = "acq_write"
    /\ rwReaders = {}
    /\ LET counter == IF ipOf[t] \in DOMAIN connections THEN connections[ipOf[t]] ELSE 0
       IN  IF counter >= max_per_ip
             THEN /\ connections' = Put(connections, ipOf[t], counter)
                  /\ pc' = [pc EXCEPT ![t] = "rejected"]
                  /\ UNCHANGED accepted
             ELSE /\ connections' = Put(connections, ipOf[t], FetchAdd(counter))
                  /\ accepted' = [accepted EXCEPT ![t] = TRUE]
                  /\ pc' = [pc EXCEPT ![t] = "held"]
    /\ UNCHANGED <<rwReaders, cur, ipOf, releases, released, detached, outcome>>
    /\ UNCHANGED exceptTracker

\* state.rs:55-60: under the read guard, decrement the entry if there is
\* one; the task that took it to zero goes for the write guard.
ReleaseRead(t) ==
    /\ pc[t] = "release"
    /\ releases' = [releases EXCEPT ![t] = @ + 1]
    /\ IF ipOf[t] \in DOMAIN connections
         THEN /\ connections' = [connections EXCEPT ![ipOf[t]] = FetchSub(@)]
              /\ pc' = [pc EXCEPT ![t] = IF connections[ipOf[t]] <= 1 THEN "rel_write" ELSE "done"]
         ELSE /\ pc' = [pc EXCEPT ![t] = "done"]
              /\ UNCHANGED connections
    /\ UNCHANGED <<rwReaders, cur, ipOf, accepted, released, detached, outcome>>
    /\ UNCHANGED exceptTracker

\* state.rs:61-67: under the write guard, remove the entry if its count is
\* still zero.
ReleaseWrite(t) ==
    /\ pc[t] = "rel_write"
    /\ rwReaders = {}
    /\ connections' = IF ipOf[t] \in DOMAIN connections /\ connections[ipOf[t]] = 0
                        THEN Remove(connections, ipOf[t])
                        ELSE connections
    /\ pc' = [pc EXCEPT ![t] = "done"]
    /\ UNCHANGED <<rwReaders, cur, ipOf, accepted, releases, released, detached, outcome>>
    /\ UNCHANGED exceptTracker

\* A task that holds a slot calls release.
CallRelease(t) ==
    /\ pc[t] = "held"
    /\ pc' = [pc EXCEPT ![t] = "release"]
    /\ UNCHANGED <<connections, rwReaders, cur, ipOf, accepted, releases, released, detached, outcome>>
    /\ UNCHANGED exceptTracker

TrackerStart(procs) ==
    /\ connections = << >>
    /\ rwReaders = {}
    /\ pc = [t \in procs |-> "start"]
    /\ cur = [t \in procs |-> 0]
    /\ ipOf = [t \in procs |-> "ip1"]
    /\ accepted = [t \in procs |-> FALSE]
    /\ releases = [t \in procs |-> 0]
    /\ released = [t \in procs |-> FALSE]
    /\ detached = [t \in procs |-> FALSE]
    /\ outcome = [t \in procs |-> "none"]

EngineIdle ==
    /\ mpdQueue = <<>>
    /\ mpdCurrent = NoSong
    /\ mpdState = "stop"
    /\ mpdNextId = 1

\* AppState::new: no listener session, no broadcast under way.
WsStart ==
    /\ ws_sessions = <<>>
    /\ wsLock = "free"
    /\ wsPc = [t \in WsTasks |-> "idle"]
    /\ current_count = [t \in WsTasks |-> 0]
    /\ nextSessionId = 1
    /\ closed = {}
    /\ ended = {}
    /\ bcPc = "idle"
    /\ bcIdx = 0
    /\ to_remove = <<>>
    /\ bcStart = <<>>
    /\ failedWrites = {}

\* No call of get_queue or free_up_space under way.
CallsIdle ==
    /\ gqSong = None
    /\ gqDone = FALSE
    /\ gqResult = [ok |-> FALSE, items |-> <<>>]
    /\ fsNeeded = 0
    /\ fsDone = FALSE
    /\ fsBefore = << >>
    /\ fsResult = [ok |-> FALSE, deleted |-> <<>>]

\* An empty uploads directory and the default budget.
StorageEmpty ==
    /\ files = << >>
    /\ max_storage = DEFAULT_MAX_TOTAL_STORAGE

\* No upload request under way.
UploadIdle ==
    /\ upPc = "idle"
    /\ upSize = 0
    /\ upStart = << >>
    /\ upDeleted = <<>>
    /\ upFile = None
    /\ upNotes = <<>>
    /\ upResponse = "none"
    /\ rlResult = [ok |-> TRUE, removed |-> None]

\* No add_to_queue request under way.
ClientIdle ==
    /\ aqPc = "idle"
    /\ aqTrackId = <<>>
    /\ aqTrack = None
    /\ aqNotes = <<>>
    /\ aqResponse = "none"

\* No call of add_file_to_mpd under way.
EnqueueCallIdle ==
    /\ afFile = <<>>
    /\ afFailAt = 0
    /\ afCsOk = TRUE
    /\ afBefore = [queue |-> <<>>, current |-> NoSong, state |-> "stop", nextId |-> 1]
    /\ afDone = FALSE
    /\ afResult = [ok |-> FALSE, play |-> FALSE]

\* No file name under construction.
FilenameIdle ==
    /\ fnId = <<>>
    /\ fnSanitized = <<>>
    /\ fnFinal = None

\* Both locks free and no task running.
LocksIdle ==
    /\ engineHolders = {}
    /\ metaReaders = {}
    /\ metaWriters = {}
    /\ script = << >>
    /\ lkOp = << >>
    /\ issued = << >>

\* No call of get_current_track made.
CurrentTrackCallIdle ==
    /\ ctElapsed = None
    /\ ctDone = FALSE
    /\ ctResult = [ok |-> FALSE, value |-> [track |-> None, elapsed |-> None, state |-> "stop"]]

\* No upload requests served at the same time.
ConcurrentUploadsIdle ==
    /\ cuPc = << >>
    /\ cuSize = << >>
    /\ cuFile = << >>
    /\ cuResponse = << >>

ExtrasIdle ==
    /\ ClientIdle
    /\ EnqueueCallIdle
    /\ FilenameIdle
    /\ LocksIdle
    /\ CurrentTrackCallIdle
    /\ ConcurrentUploadsIdle

\* start_mpd_monitor before its first tick (mpd_manager.rs:419).
MonitorStart ==
    /\ previous_track_filename = None
    /\ monPc = "sleep"
    /\ monCurrent = [track |-> None, state |-> "stop"]
    /\ ticked = FALSE
    /\ tickPrev = None
    /\ tickFile = None
    /\ tickQueue = <<>>
    /\ tickCmds = <<>>
    /\ tickNotes = <<>>

(* Concurrent tasks calling try_acquire and release for one source. *)
InitTracker ==
    /\ TrackerStart(Tasks)
    /\ EngineIdle
    /\ tracks_metadata = << >>
    /\ WsStart
    /\ CallsIdle
    /\ StorageEmpty
    /\ UploadIdle
    /\ MonitorStart
    /\ ExtrasIdle

NextTracker ==
    \E t \in Tasks :
        \/ TryAcquireRead(t)
        \/ TryAcquireCheck(t)
        \/ TryAcquireWrite(t)
        \/ CallRelease(t)
        \/ ReleaseRead(t)
        \/ ReleaseWrite(t)

SpecTracker == InitTracker /\ [][NextTracker]_vars

\* C1: for one source, under every interleaving of try_acquire and release,
\* the count never exceeds the per-source maximum and never goes below zero
\* (a count that wrapped around shows as one above the maximum).
C1_CountWithinLimit ==
    \A ip \in DOMAIN connections :
        connections[ip] >= 0 /\ connections[ip] <= MAX_STREAMS_PER_IP

-----------------------------------------------------------------------------
(* The stream proxy handler (stream.rs:166-313) and TrackedStream *)

\* stream.rs:190-213: with the slot held, get_queue; an empty upcoming list
\* releases the slot and answers 503, an error or a non-empty list goes on to
\* connect.  A failed Queue command fails get_queue, a failed CurrentSong
\* reads as no current song.
ProxyCheckQueue(c) ==
    /\ pc[c] = "held"
    /\ \E queue_ok \in BOOLEAN, song_ok \in BOOLEAN :
         LET queue == GetQueue(mpdQueue, queue_ok,
                               CurrentSongCmd(mpdQueue, mpdCurrent, song_ok), tracks_metadata)
         IN  IF queue.ok /\ queue.items = <<>>
               THEN /\ pc' = [pc EXCEPT ![c] = "release"]
                    /\ outcome' = [outcome EXCEPT ![c] = "queue_empty"]
               ELSE /\ pc' = [pc EXCEPT ![c] = "connecting"]
                    /\ UNCHANGED outcome
    /\ UNCHANGED <<connections, rwReaders, cur, ipOf, accepted, releases, released, detached>>
    /\ UNCHANGED exceptTracker

\* Mutant: the slot is given back as soon as the upstream answers, before
\* the body is relayed.
ProxyConnectReleasesSlot(c) ==
    /\ pc[c] = "connecting"
    /\ pc' = [pc EXCEPT ![c] = "streaming"]
    /\ released' = [released EXCEPT ![c] = TRUE]
    /\ releases' = [releases EXCEPT ![c] = @ + 1]
    /\ connections' = IF ipOf[c] \in DOMAIN connections
                        THEN [connections EXCEPT ![ipOf[c]] = FetchSub(@)]
                        ELSE connections
    /\ UNCHANGED <<rwReaders, cur, ipOf, accepted, detached, outcome>>
    /\ UNCHANGED <<engineVars, tracks_metadata, wsVars, callVars, storageVars, handlerVars>>

\* stream.rs:247-312: the upstream request; on success the body is a
\* TrackedStream (released = false), on failure the slot is released.
ProxyConnect(c) ==
    /\ pc[c] = "connecting"
    /\ \E connected \in BOOLEAN :
         IF connected
           THEN /\ pc' = [pc EXCEPT ![c] = "streaming"]
                /\ released' = [released EXCEPT ![c] = FALSE]
                /\ UNCHANGED outcome
           ELSE /\ pc' = [pc EXCEPT ![c] = "release"]
                /\ outcome' = [outcome EXCEPT ![c] = "connect_failed"]
                /\ UNCHANGED released
    /\ UNCHANGED <<connections, rwReaders, cur, ipOf, accepted, releases, detached>>
    /\ UNCHANGED exceptTracker

\* stream.rs:71-84: the body is dropped, at the end of the upstream stream or
\* when the client goes away; Drop spawns the release unless already released.
StreamDrop(c) ==
    /\ pc[c] = "streaming"
    /\ \E how \in {"stream_end", "client_abort"} :
         outcome' = [outcome EXCEPT ![c] = how]
    /\ IF ~released[c]
         THEN /\ released' = [released EXCEPT ![c] = TRUE]
              /\ detached' = [detached EXCEPT ![c] = TRUE]
              /\ pc' = [pc EXCEPT ![c] = "release"]
         ELSE /\ pc' = [pc EXCEPT ![c] = "done"]
              /\ UNCHANGED <<released, detached>>
    /\ UNCHANGED <<connections, rwReaders, cur, ipOf, accepted, releases>>
    /\ UNCHANGED exceptTracker

\* The client goes away while the handler is suspended at an await: the
\* handler's future is dropped and nothing after that await runs.  The await
\* points are the lock acquisitions of try_acquire and of the handler's own
\* release calls, get_total and get_queue, and the upstream request.
HandlerCancelled(c) ==
    /\ \/ pc[c] \in {"start", "acq_write", "held", "connecting"}
       \/ pc[c] \in {"release", "rel_write"} /\ ~detached[c]
    /\ pc' = [pc EXCEPT ![c] = "cancelled"]
    /\ outcome' = [outcome EXCEPT ![c] = "cancelled"]
    /\ UNCHANGED <<connections, rwReaders, cur, ipOf, accepted, releases, released, detached>>
    /\ UNCHANGED exceptTracker

Ended(c) == pc[c] \in {"done", "cancelled", "rejected"}

(* Stream connections of one source, each through stream_proxy. *)
InitStream ==
    /\ TrackerStart(Conns)
    /\ \E e \in EngineStarts :
         /\ mpdQueue = e.queue
         /\ mpdCurrent = e.current
         /\ mpdState = e.state
         /\ mpdNextId = Len(e.queue) + 1
    /\ tracks_metadata = << >>
    /\ WsStart
    /\ CallsIdle
    /\ StorageEmpty
    /\ UploadIdle
    /\ MonitorStart
    /\ ExtrasIdle

NextStream ==
    \/ \E c \in Conns :
          \/ TryAcquireRead(c)
          \/ TryAcquireCheck(c)
          \/ TryAcquireWrite(c)
          \/ ProxyCheckQueue(c)
          \/ ProxyConnect(c)
          \/ StreamDrop(c)
          \/ HandlerCancelled(c)
          \/ ReleaseRead(c)
          \/ ReleaseWrite(c)
    \/ EngineAdvance

SpecStream == InitStream /\ [][NextStream]_vars

\* C2: for every accepted connection, release runs exactly once however the
\* connection ends (empty queue, connect failure, end of stream, client
\* abort, cancellation of the handler): never zero times, never twice.
C2_ReleasedExactlyOnce ==
    \A c \in DOMAIN pc : accepted[c] /\ Ended(c) => releases[c] = 1

\* Release never runs twice for a connection.
C2_NeverReleasedTwice == \A c \in DOMAIN pc : releases[c] <= 1

-----------------------------------------------------------------------------
(* Broadcast Hub: the listener-session registry (state.rs, stream.rs) *)

\* stream.rs:93-99: get_session_count (lock, len, unlock) and the check
\* against the cap; at the cap the handler answers 503.
WsCheck(t) ==
    /\ wsPc[t] = "idle"
    /\ wsLock = "free"
    /\ IF Len(ws_sessions) >= MAX_CONNECTIONS
         THEN UNCHANGED <<wsPc, current_count>>
         ELSE /\ current_count' = [current_count EXCEPT ![t] = Len(ws_sessions)]
              /\ wsPc' = [wsPc EXCEPT ![t] = "checked"]
    /\ UNCHANGED <<ws_sessions, wsLock, nextSessionId, closed, ended, bcPc, bcIdx, to_remove, bcStart, failedWrites>>
    /\ UNCHANGED exceptWs

\* stream.rs:101-113: the handshake, a fresh id, then lock and push.
WsPush(t) ==
    /\ wsPc[t] = "checked"
    /\ wsLock = "free"
    /\ ws_sessions' = Append(ws_sessions, nextSessionId)
    /\ nextSessionId' = nextSessionId + 1
    /\ wsPc' = [wsPc EXCEPT ![t] = "idle"]
    /\ current_count' = [current_count EXCEPT ![t] = 0]
    /\ UNCHANGED <<wsLock, closed, ended, bcPc, bcIdx, to_remove, bcStart, failedWrites>>
    /\ UNCHANGED exceptWs

\* The connection of a session goes away: from now on a write to it fails.
SessionDies(id) ==
    /\ id \in 1..(nextSessionId - 1)
    /\ id \notin closed
    /\ closed' = closed \cup {id}
    /\ UNCHANGED <<ws_sessions, wsLock, wsPc, current_count, nextSessionId, ended, bcPc, bcIdx, to_remove, bcStart, failedWrites>>
    /\ UNCHANGED exceptWs

\* stream.rs:157-158, state.rs:137-140: the session's task leaves its loop
\* (close message, error, failed ping) and calls remove_session.
RemoveSession(id) ==
    /\ id \in 1..(nextSessionId - 1)
    /\ id \notin ended
    /\ wsLock = "free"
    /\ ended' = ended \cup {id}
    /\ ws_sessions' = SelectSeq(ws_sessions, LAMBDA x : x # id)
    /\ UNCHANGED <<wsLock, wsPc, current_count, nextSessionId, closed, bcPc, bcIdx, to_remove, bcStart, failedWrites>>
    /\ UNCHANGED exceptWs

\* Vec::remove(idx), idx counting from 0.
RemoveAt(seq, idx) == SubSeq(seq, 1, idx) \o SubSeq(seq, idx + 2, Len(seq))

\* Mutant: the collected indices removed first one first.
RECURSIVE RemoveFailedForward(_, _)
RemoveFailedForward(sessions, indices) ==
    IF indices = <<>> THEN sessions
    ELSE RemoveFailedForward(IF indices[1] < Len(sessions)
                               THEN RemoveAt(sessions, indices[1])
                               ELSE sessions,
                             SubSeq(indices, 2, Len(indices)))

\* state.rs:132-134: remove the collected indices, last one first.
RECURSIVE RemoveFailed(_, _)
RemoveFailed(sessions, indices) ==
    IF indices = <<>> THEN sessions
    ELSE RemoveFailed(RemoveAt(sessions, indices[Len(indices)]),
                      SubSeq(indices, 1, Len(indices) - 1))

\* state.rs:122-123: broadcast_message takes the Mutex and keeps it until
\* it returns.
BroadcastLock ==
    /\ bcPc = "idle"
    /\ wsLock = "free"
    /\ wsLock' = "broadcast"
    /\ bcPc' = "writing"
    /\ bcIdx' = 0
    /\ to_remove' = <<>>
    /\ bcStart' = ws_sessions
    /\ failedWrites' = {}
    /\ UNCHANGED <<ws_sessions, wsPc, current_count, nextSessionId, closed, ended>>
    /\ UNCHANGED exceptWs

\* state.rs:125-129: one write; a failed one has its index collected.
BroadcastWrite ==
    /\ bcPc = "writing"
    /\ bcIdx < Len(ws_sessions)
    /\ LET id == ws_sessions[bcIdx + 1]
       IN  IF id \in closed
             THEN /\ to_remove' = Append(to_remove, bcIdx)
                  /\ failedWrites' = failedWrites \cup {id}
             ELSE UNCHANGED <<to_remove, failedWrites>>
    /\ bcIdx' = bcIdx + 1
    /\ UNCHANGED <<ws_sessions, wsLock, wsPc, current_count, nextSessionId, closed, ended, bcPc, bcStart>>
    /\ UNCHANGED exceptWs

\* state.rs:131-135: the removals, then the Mutex is released on return.
BroadcastFinish ==
    /\ bcPc = "writing"
    /\ bcIdx = Len(ws_sessions)
    /\ ws_sessions' = RemoveFailed(ws_sessions, to_remove)
    /\ wsLock' = "free"
    /\ bcPc' = "idle"
    /\ bcIdx' = 0
    /\ to_remove' = <<>>
    /\ UNCHANGED <<wsPc, current_count, nextSessionId, closed, ended, bcStart, failedWrites>>
    /\ UNCHANGED exceptWs

InitWs ==
    /\ TrackerStart({})
    /\ EngineIdle
    /\ tracks_metadata = << >>
    /\ WsStart
    /\ CallsIdle
    /\ StorageEmpty
    /\ UploadIdle
    /\ MonitorStart
    /\ ExtrasIdle

(* Websocket handlers racing for the last places under the session cap. *)
NextWs ==
    \E t \in WsTasks :
        \/ WsCheck(t)
        \/ WsPush(t)

SpecWs == InitWs /\ [][NextWs]_vars

\* C3: the registry never holds more sessions than the global cap, also when
\* several connection attempts read the count before any of them pushes.
C3_SessionsWithinCap == Len(ws_sessions) <= MAX_CONNECTIONS

(* Deliveries racing with sessions that register, die and unregister. *)
WsArrivalsLeft ==
    nextSessionId + Cardinality({t \in WsTasks : wsPc[t] = "checked"}) <= MaxSessionIds

NextBroadcast ==
    \/ \E t \in WsTasks :
          \/ WsArrivalsLeft /\ WsCheck(t)
          \/ WsPush(t)
    \/ \E id \in 1..MaxSessionIds :
          \/ SessionDies(id)
          \/ RemoveSession(id)
    \/ BroadcastLock
    \/ BroadcastWrite
    \/ BroadcastFinish

SpecBroadcast == InitWs /\ [][NextBroadcast]_vars

\* The sessions of the delivery's start whose write did not fail, in order.
Delivered == SelectSeq(bcStart, LAMBDA x : x \notin failedWrites)

\* C4: when broadcast_message returns, the registry holds exactly the
\* sessions registered when the delivery started whose write succeeded, in
\* their order (each failed one removed once, no other one removed); and
\* while the delivery is under way no racing register or unregister changes
\* the registry, so a session registered concurrently is added after it.
C4_BroadcastPrunes ==
    /\ [](wsLock = "broadcast" => ws_sessions = bcStart)
    /\ [][bcPc = "writing" /\ bcPc' = "idle" => ws_sessions' = Delivered]_vars

\* A delivery has written to every session, two writes failed and one
\* succeeded, and a connection attempt that has passed its check is waiting
\* to push.
C4_Witness ==
    /\ bcPc = "writing"
    /\ bcIdx = Len(ws_sessions)
    /\ Cardinality(failedWrites) >= 2
    /\ Len(Delivered) > 0
    /\ \E t \in WsTasks : wsPc[t] = "checked"

-----------------------------------------------------------------------------
(* get_queue on any engine queue and any current song *)

\* The file of a queued song: the three file names in turn, so that two
\* songs of the queue can play the same file.
FileOfSong(i) == IF i % 3 = 1 THEN FileA ELSE IF i % 3 = 2 THEN FileB ELSE FileC

SongPool == {Song(i, FileOfSong(i)) : i \in 1..MaxSongId}

\* The queues of at most MaxQueueLen songs with distinct ids.
Queues ==
    UNION {{q \in [1..n -> SongPool] : \A i, j \in 1..n : i # j => q[i].id # q[j].id} :
           n \in 0..MaxQueueLen}

\* The registries a run may start from: empty, or holding the uploaded
\* track of FileA.
Registries == {<< >>, [x \in {TrackIdOf(FileA)} |-> [id |-> TrackIdOf(FileA), filename |-> FileA]]}

\* mpd_manager.rs:229-269.  The Queue response is the engine's queue; the
\* CurrentSong response gqSong is any song or none (a song that is not in the
\* Queue response included).
CallGetQueue ==
    /\ ~gqDone
    /\ \E queue_ok \in BOOLEAN :
         gqResult' = GetQueue(mpdQueue, queue_ok, gqSong, tracks_metadata)
    /\ gqDone' = TRUE
    /\ UNCHANGED <<gqSong, fsNeeded, fsDone, fsBefore, fsResult>>
    /\ UNCHANGED exceptCalls

InitGetQueue ==
    /\ TrackerStart({})
    /\ mpdQueue \in Queues
    /\ mpdCurrent = NoSong
    /\ mpdState = "stop"
    /\ mpdNextId = MaxSongId + 1
    /\ tracks_metadata \in Registries
    /\ WsStart
    /\ gqSong \in {None} \cup {Some(x) : x \in SongPool}
    /\ gqDone = FALSE
    /\ gqResult = [ok |-> FALSE, items |-> <<>>]
    /\ fsNeeded = 0
    /\ fsDone = FALSE
    /\ fsBefore = << >>
    /\ fsResult = [ok |-> FALSE, deleted |-> <<>>]
    /\ StorageEmpty
    /\ UploadIdle
    /\ MonitorStart
    /\ ExtrasIdle

NextGetQueue == CallGetQueue

SpecGetQueue == InitGetQueue /\ [][NextGetQueue]_vars

\* The 0-based queue position of the current song gqSong, -1 if there is
\* none or it is not in the queue.
GqCurrentIndex == IF gqSong = None THEN -1 ELSE PositionOfId(mpdQueue, gqSong[1].id)

GqReturned == gqDone /\ gqResult.ok

\* The position fields are 1, 2, ..., n in order.
GqNumberedFromOne == \A k \in 1..Len(gqResult.items) : gqResult.items[k].position = k

\* C5 as stated (P3): with the current song at queue position p, counted
\* from 0 as the engine counts, get_queue returns len(queue) - p entries
\* (len(queue) if there is no current song), numbered 1, 2, ..., n.
C5_LenMinusP ==
    GqReturned =>
        /\ Len(gqResult.items) =
               IF GqCurrentIndex >= 0 THEN Len(mpdQueue) - GqCurrentIndex ELSE Len(mpdQueue)
        /\ GqNumberedFromOne

\* C5 amended: with the current song at queue position p, counted from 0,
\* get_queue returns len(queue) - p - 1 entries (len(queue) if there is no
\* current song or it is not in the queue), numbered 1, 2, ..., n.
C5_LenMinusPMinusOne ==
    GqReturned =>
        /\ Len(gqResult.items) =
               IF GqCurrentIndex >= 0 THEN Len(mpdQueue) - GqCurrentIndex - 1 ELSE Len(mpdQueue)
        /\ GqNumberedFromOne

\* get_queue has returned a list for a queue of three songs whose first
\* song is current.
C5_Witness ==
    /\ GqReturned
    /\ Len(mpdQueue) = 3
    /\ GqCurrentIndex = 0
    /\ Len(gqResult.items) = 2

\* The tracks of the queue entries after 0-based position p, in order.
TracksAfter(p) ==
    [k \in 1..(Len(mpdQueue) - p - 1) |-> SongInQueueToTrack(mpdQueue[p + 1 + k], tracks_metadata)]

\* C6: the upcoming list holds neither the current entry nor any entry
\* before it: it is exactly the entries after the current one, in queue
\* order (none if the current song is last), and every entry if the current
\* song is not in the queue.
C6_OnlyAfterCurrent ==
    GqReturned =>
        [k \in 1..Len(gqResult.items) |-> gqResult.items[k].track] = TracksAfter(GqCurrentIndex)

\* Scenario B: three tracks queued, the second one current, and get_queue
\* has returned the third track alone, at position 1.
C6_Witness ==
    /\ GqReturned
    /\ Len(mpdQueue) = 3
    /\ GqCurrentIndex = 1
    /\ gqResult.items = <<[position |-> 1, track |-> SongInQueueToTrack(mpdQueue[3], tracks_metadata)]>>

-----------------------------------------------------------------------------
(* Storage Eviction Manager: free_up_space (upload.rs) *)

\* A dotfile of the uploads directory (.gitkeep).
DotKeep == <<".", "k">>

IsHidden(name) == name[1] = "."

RECURSIVE SumSizes(_, _)
SumSizes(fs, names) ==
    IF names = {} THEN 0
    ELSE LET n == CHOOSE x \in names : TRUE
         IN  fs[n].size + SumSizes(fs, names \ {n})

\* get_uploads_directory_size: every regular file counts, dotfiles too.
DirSize(fs) == SumSizes(fs, DOMAIN fs)

\* get_oldest_file: among the files that are not hidden, one with the least
\* modification time; among equally old ones read_dir's order decides, so
\* any of them.
OldestFiles(fs) ==
    {n \in DOMAIN fs : ~IsHidden(n) /\
        \A m \in DOMAIN fs : ~IsHidden(m) => fs[n].mtime <= fs[m].mtime}

\* Mutant: the loop goes on while freed <= to_free.
RECURSIVE FreeLoopOneMore(_, _, _, _)
FreeLoopOneMore(fs, freed, to_free, deleted) ==
    IF freed > to_free THEN {[ok |-> TRUE, files |-> fs, deleted |-> deleted]}
    ELSE IF OldestFiles(fs) = {} THEN {[ok |-> FALSE, files |-> fs, deleted |-> deleted]}
    ELSE UNION {FreeLoopOneMore(Remove(fs, n), freed + fs[n].size, to_free, Append(deleted, n)) :
                n \in OldestFiles(fs)}

\* upload.rs:112-131: delete the oldest file until enough is freed; the set
\* of the outcomes the directory order allows.
RECURSIVE FreeLoop(_, _, _, _)
FreeLoop(fs, freed, to_free, deleted) ==
    IF freed >= to_free THEN {[ok |-> TRUE, files |-> fs, deleted |-> deleted]}
    ELSE IF OldestFiles(fs) = {} THEN {[ok |-> FALSE, files |-> fs, deleted |-> deleted]}
    ELSE UNION {FreeLoop(Remove(fs, n), freed + fs[n].size, to_free, Append(deleted, n)) :
                n \in OldestFiles(fs)}

\* free_up_space(needed_size) with budget max: upload.rs:96-135.
FreeUpSpace(fs, needed_size, max) ==
    LET current_size == DirSize(fs)
    IN  IF current_size + needed_size <= max
          THEN {[ok |-> TRUE, files |-> fs, deleted |-> <<>>]}
          ELSE FreeLoop(fs, 0, (current_size + needed_size) - max, <<>>)

CallFreeUpSpace ==
    /\ ~fsDone
    /\ \E out \in FreeUpSpace(files, fsNeeded, max_storage) :
         /\ files' = out.files
         /\ fsResult' = [ok |-> out.ok, deleted |-> out.deleted]
    /\ fsDone' = TRUE
    /\ fsBefore' = files
    /\ UNCHANGED <<max_storage, fsNeeded, gqSong, gqDone, gqResult>>
    /\ UNCHANGED exceptCallsAndStorage

\* The sizes of the stored files, the budgets and the requested sizes tried.
FileSizes == {0, 40, 100}
Budgets == {0, 100, DEFAULT_MAX_TOTAL_STORAGE}
NeededSizes == {0, 40, MAX_FILE_SIZE}

\* The directories a call may find: each of three files there or not, with
\* any of the sizes and modification times (equal times included), and the
\* dotfile there or not.
Directories ==
    UNION {[names -> [size : FileSizes, mtime : 1..MaxMtime]] : names \in SUBSET FileNames}

WithDotfile(fs) == {fs} \cup {Put(fs, DotKeep, [size |-> z, mtime |-> 1]) : z \in {0, 40}}

InitFreeSpace ==
    /\ TrackerStart({})
    /\ EngineIdle
    /\ tracks_metadata = << >>
    /\ WsStart
    /\ gqSong = None
    /\ gqDone = FALSE
    /\ gqResult = [ok |-> FALSE, items |-> <<>>]
    /\ \E d \in Directories : files \in WithDotfile(d)
    /\ max_storage \in Budgets
    /\ fsNeeded \in NeededSizes
    /\ fsDone = FALSE
    /\ fsBefore = << >>
    /\ fsResult = [ok |-> FALSE, deleted |-> <<>>]
    /\ UploadIdle
    /\ MonitorStart
    /\ ExtrasIdle

NextFreeSpace == CallFreeUpSpace

SpecFreeSpace == InitFreeSpace /\ [][NextFreeSpace]_vars

Deletable(fs) == {n \in DOMAIN fs : ~IsHidden(n)}

\* The oldest-first prefixes of the deletable files: no file left behind is
\* older than a file of the prefix.
OldestFirstPrefixes(fs) ==
    {P \in SUBSET Deletable(fs) :
        \A d \in P : \A r \in Deletable(fs) \ P : fs[d].mtime <= fs[r].mtime}

\* Deleting the set P of files makes room for needed more bytes.
Suffices(fs, P, needed, max) == DirSize(fs) - SumSizes(fs, P) + needed <= max

SeqRange(q) == {q[i] : i \in 1..Len(q)}

-----------------------------------------------------------------------------
(* Engine commands that change the engine *)

Min(a, b) == IF a <= b THEN a ELSE b

EngineNow == [queue |-> mpdQueue, current |-> mpdCurrent, state |-> mpdState, nextId |-> mpdNextId]

EngineBecomes(e) ==
    /\ mpdQueue' = e.queue
    /\ mpdCurrent' = e.current
    /\ mpdState' = e.state
    /\ mpdNextId' = e.nextId

InsertAt(seq, idx, x) == SubSeq(seq, 1, idx) \o <<x>> \o SubSeq(seq, idx + 1, Len(seq))

\* Mutant: the first entry is deleted, whatever the position asked for.
DeleteFront(e, pos) == [e EXCEPT !.queue = Tail(e.queue)]

\* Delete::position(pos): the entry leaves the queue; when it was the
\* current song the engine goes on to the song after it, or stops.
DeletePosition(e, pos) ==
    LET gone == e.queue[pos + 1]
        rest == RemoveAt(e.queue, pos)
    IN  IF gone.id # e.current THEN [e EXCEPT !.queue = rest]
        ELSE IF pos + 1 <= Len(rest) THEN [e EXCEPT !.queue = rest, !.current = rest[pos + 1].id]
        ELSE [e EXCEPT !.queue = rest, !.current = NoSong, !.state = "stop"]

\* Mutant: the move takes the song out and does not put it back.
MoveIdAway(e, id, to) == [e EXCEPT !.queue = RemoveAt(e.queue, PositionOfId(e.queue, id))]

\* Move::id(id).to_position(to): the song is taken out and put back at the
\* 0-based position to; the current song stays the current song.
MoveIdTo(e, id, to) ==
    LET from == PositionOfId(e.queue, id)
    IN  [e EXCEPT !.queue = InsertAt(RemoveAt(e.queue, from), to, e.queue[from + 1])]

\* Add::uri(filename): a new entry at the end of the queue.
AddUri(e, filename) ==
    [e EXCEPT !.queue = Append(e.queue, Song(e.nextId, filename)), !.nextId = e.nextId + 1]

\* Play::current(): plays the current song, or the first one of the queue
\* when there is none.
PlayCurrent(e) ==
    IF e.queue = <<>> THEN e
    ELSE IF e.current = NoSong THEN [e EXCEPT !.current = e.queue[1].id, !.state = "play"]
    ELSE [e EXCEPT !.state = "play"]

\* Play::song(SongPosition(pos)).
PlaySong(e, pos) == [e EXCEPT !.current = e.queue[pos + 1].id, !.state = "play"]

-----------------------------------------------------------------------------
(* Queue Orchestrator: add_file_to_mpd, remove_last_track_from_queue *)

\* The commands of add_file_to_mpd, numbered in the order it issues them;
\* CurrentSong is not numbered, its failure reads as no current song.
CmdUpdate == 1
CmdStatus == 2
CmdQueueBefore == 3
CmdAdd == 4
CmdQueueAfter == 5
CmdMove == 6
CmdQueueVerify == 7
CmdPlay == 8
NoFailure == 0
FailurePoints == NoFailure..CmdPlay

\* mpd_manager.rs:102-119.
TargetPosition(queue_before, current_song) ==
    IF current_song = None THEN 0
    ELSE LET current_pos == PositionOfId(queue_before, current_song[1].id)
         IN  IF current_pos = -1 THEN 0 ELSE current_pos + 1

\* Mutant: playback is started whatever the reported state.
AutoPlaysAlways(status_state) == TRUE

\* mpd_manager.rs:187: `if status.state == PlayState::Stopped`.
AutoPlays(status_state) == status_state = "stop"

\* add_file_to_mpd(filename) on engine e, with the first command that fails
\* (if any) and whether CurrentSong answers: the result, whether
\* Play::current() was issued, and the engine after.
AddFileToMpd(e, filename, failAt, csOk) ==
    IF failAt \in {CmdUpdate, CmdStatus, CmdQueueBefore}
      THEN [ok |-> FALSE, play |-> FALSE, engine |-> e]
    ELSE
      LET queue_before == e.queue
          current_song == CurrentSongCmd(e.queue, e.current, csOk)
          target_position == TargetPosition(queue_before, current_song)
          added == AddUri(e, filename)
          queue_after == added.queue
          last_position == Len(queue_after) - 1
          last_song == queue_after[Len(queue_after)]
          valid_target == Min(target_position, Len(queue_after))
          moves == last_song.file = filename /\ last_position # valid_target
          moved == IF moves THEN MoveIdTo(added, last_song.id, valid_target) ELSE added
      IN  IF failAt = CmdAdd THEN [ok |-> FALSE, play |-> FALSE, engine |-> e]
          ELSE IF failAt = CmdQueueAfter THEN [ok |-> FALSE, play |-> FALSE, engine |-> added]
          ELSE IF moves /\ failAt = CmdMove THEN [ok |-> FALSE, play |-> FALSE, engine |-> added]
          ELSE IF moves /\ failAt = CmdQueueVerify
            THEN [ok |-> FALSE, play |-> FALSE, engine |-> moved]
          ELSE IF AutoPlays(e.state) /\ failAt = CmdPlay
            THEN [ok |-> FALSE, play |-> TRUE, engine |-> moved]
          ELSE IF AutoPlays(e.state) THEN [ok |-> TRUE, play |-> TRUE, engine |-> PlayCurrent(moved)]
          ELSE [ok |-> TRUE, play |-> FALSE, engine |-> moved]

\* The track id remove_last_track_from_queue takes from the file name
\* (mpd_manager.rs:32-43).
RemoveLastTrackId(filename) == FirstSegment(FileStem(filename))

\* remove_last_track_from_queue(state, true), mpd_manager.rs:12-73: the
\* last entry leaves the queue, its registry entry and its file go too, and
\* queue_update is broadcast.  Nothing happens when the Queue or the Delete
\* command fails or the queue is empty.
RemoveLastTrackFromQueue(queueOk, deleteOk) ==
    /\ rlResult' = IF ~queueOk THEN [ok |-> FALSE, removed |-> None]
                   ELSE IF mpdQueue = <<>> THEN [ok |-> TRUE, removed |-> None]
                   ELSE IF ~deleteOk THEN [ok |-> FALSE, removed |-> None]
                   ELSE [ok |-> TRUE, removed |-> Some(mpdQueue[Len(mpdQueue)].file)]
    /\ IF queueOk /\ mpdQueue # <<>> /\ deleteOk
      THEN LET last_pos == Len(mpdQueue) - 1
               filename == mpdQueue[Len(mpdQueue)].file
           IN  /\ EngineBecomes(DeletePosition(EngineNow, last_pos))
               /\ tracks_metadata' = Remove(tracks_metadata, RemoveLastTrackId(filename))
               /\ files' = Remove(files, filename)
               /\ upDeleted' = IF filename \in DOMAIN files
                                 THEN Append(upDeleted, [file |-> filename, by |-> "remove_last_track_from_queue"])
                                 ELSE upDeleted
               /\ upNotes' = Append(upNotes, "queue_update")
      ELSE UNCHANGED <<engineVars, tracks_metadata, files, upDeleted, upNotes>>

-----------------------------------------------------------------------------
(* Upload Intake: upload_music (upload.rs:137-296) *)

\* The id generated for the upload (a uuid holds neither '_' nor '.') and
\* the sanitized names a client may send.
NewTrackId == <<"n">>
SanitizedNames == {<<"u", ".", "m">>, <<"u", "_", "v", ".", "m">>}

\* Mutant: the name comes first and the id last.
FinalFilenameIdLast(track_id, sanitized_filename) == sanitized_filename \o <<"_">> \o track_id

\* format!("{}_{}", track_id, sanitized_filename), upload.rs:212.
FinalFilename(track_id, sanitized_filename) == track_id \o <<"_">> \o sanitized_filename

\* The modification time of a file written now: later than every file there.
Now(fs) == IF DOMAIN fs = {} THEN 1 ELSE 1 + Max({fs[n].mtime : n \in DOMAIN fs})

DeletedBy(out) == [i \in 1..Len(out.deleted) |-> [file |-> out.deleted[i], by |-> "free_up_space"]]

\* Mutant: the upload goes to the generic eviction whatever the usage.
UploadBeginWithoutTruncation ==
    /\ upPc = "start"
    /\ upPc' = "free"
    /\ upStart' = files
    /\ UNCHANGED <<upSize, upDeleted, upFile, upNotes, upResponse, rlResult>>
    /\ UNCHANGED <<engineVars, tracks_metadata, storageVars, exceptUpload>>

\* upload.rs:145-167: the extension is checked, then the storage.
UploadBegin ==
    /\ upPc = "start"
    /\ \/ /\ upPc' = "done"
          /\ upResponse' = "bad_request"
          /\ UNCHANGED upStart
       \/ /\ upPc' = IF DirSize(files) >= max_storage THEN "remove_first" ELSE "free"
          /\ upStart' = files
          /\ UNCHANGED upResponse
    /\ UNCHANGED <<upSize, upDeleted, upFile, upNotes, rlResult>>
    /\ UNCHANGED <<engineVars, tracks_metadata, storageVars, exceptUpload>>

\* upload.rs:169 and 184: remove_last_track_from_queue(&state, true); its
\* error is only logged.
UploadRemoveLast ==
    /\ upPc \in {"remove_first", "remove_retry"}
    /\ \E queueOk, deleteOk \in BOOLEAN : RemoveLastTrackFromQueue(queueOk, deleteOk)
    /\ upPc' = IF upPc = "remove_first" THEN "free" ELSE "free_retry"
    /\ UNCHANGED <<upSize, upStart, upFile, upResponse, max_storage>>
    /\ UNCHANGED exceptUpload

\* upload.rs:174 and 189: free_up_space(MAX_FILE_SIZE).
UploadFreeSpace ==
    /\ upPc \in {"free", "free_retry"}
    /\ \E out \in FreeUpSpace(files, MAX_FILE_SIZE, max_storage) :
         /\ files' = out.files
         /\ upDeleted' = upDeleted \o DeletedBy(out)
         /\ IF out.ok THEN upPc' = "write" /\ UNCHANGED upResponse
            ELSE IF upPc = "free" THEN upPc' = "remove_retry" /\ UNCHANGED upResponse
            ELSE upPc' = "done" /\ upResponse' = "insufficient_storage"
    /\ UNCHANGED <<upSize, upStart, upFile, upNotes, rlResult, max_storage>>
    /\ UNCHANGED <<engineVars, tracks_metadata, exceptUpload>>

\* upload.rs:209-268: the file is created and the chunks are written; a
\* file over MAX_FILE_SIZE is removed again; an error on a chunk ends the
\* request with what was written so far; otherwise the track is registered.
UploadWrite ==
    /\ upPc = "write"
    /\ \E sanitized_filename \in SanitizedNames :
         LET final_filename == FinalFilename(NewTrackId, sanitized_filename)
         IN  \/ /\ upSize > MAX_FILE_SIZE
                /\ upPc' = "done"
                /\ upResponse' = "bad_request"
                /\ UNCHANGED <<files, upFile, tracks_metadata>>
             \/ /\ files' = Put(files, final_filename, [size |-> 0, mtime |-> Now(files)])
                /\ upFile' = Some(final_filename)
                /\ upPc' = "done"
                /\ upResponse' = "error"
                /\ UNCHANGED tracks_metadata
             \/ /\ upSize <= MAX_FILE_SIZE
                /\ files' = Put(files, final_filename, [size |-> upSize, mtime |-> Now(files)])
                /\ upFile' = Some(final_filename)
                /\ tracks_metadata' = Put(tracks_metadata, NewTrackId,
                                          [id |-> NewTrackId, filename |-> final_filename])
                /\ upPc' = "enqueue"
                /\ UNCHANGED upResponse
    /\ UNCHANGED <<upSize, upStart, upDeleted, upNotes, rlResult, max_storage>>
    /\ UNCHANGED <<engineVars, exceptUpload>>

\* upload.rs:270-289: add_file_to_mpd, then the queue_update broadcast.
UploadEnqueue ==
    /\ upPc = "enqueue"
    /\ \E failAt \in FailurePoints, csOk \in BOOLEAN :
         LET r == AddFileToMpd(EngineNow, upFile[1], failAt, csOk)
         IN  /\ EngineBecomes(r.engine)
             /\ upNotes' = IF r.ok THEN Append(upNotes, "queue_update") ELSE upNotes
             /\ upResponse' = IF r.ok THEN "ok" ELSE "error"
    /\ upPc' = "done"
    /\ UNCHANGED <<upSize, upStart, upDeleted, upFile, rlResult>>
    /\ UNCHANGED <<tracks_metadata, storageVars, exceptUpload>>

\* The sizes of incoming files tried: Scenario A's 40, the largest allowed,
\* and one over the limit.
UploadSizes == {40, MAX_FILE_SIZE, MAX_FILE_SIZE + 1}

\* The directories an upload may find: files of 40 or 100.
UploadDirectories == {d \in Directories : \A n \in DOMAIN d : d[n].size # 0}

\* Every visible file of the directory is a registered track.
RegistryOf(fs) ==
    [x \in {TrackIdOf(n) : n \in Deletable(fs)} |->
        [id |-> x, filename |-> CHOOSE n \in Deletable(fs) : TrackIdOf(n) = x]]

\* One upload request, on any directory, budget and engine state.
InitUpload ==
    /\ TrackerStart({})
    /\ \E e \in EngineStarts :
         /\ mpdQueue = e.queue
         /\ mpdCurrent = e.current
         /\ mpdState = e.state
         /\ mpdNextId = Len(e.queue) + 1
    /\ \E d \in UploadDirectories : files \in WithDotfile(d)
    /\ max_storage \in Budgets
    /\ tracks_metadata = RegistryOf(files)
    /\ WsStart
    /\ CallsIdle
    /\ upPc = "start"
    /\ upSize \in UploadSizes
    /\ upStart = << >>
    /\ upDeleted = <<>>
    /\ upFile = None
    /\ upNotes = <<>>
    /\ upResponse = "none"
    /\ rlResult = [ok |-> TRUE, removed |-> None]
    /\ MonitorStart
    /\ ExtrasIdle

NextUpload ==
    \/ UploadBegin
    \/ UploadRemoveLast
    \/ UploadFreeSpace
    \/ UploadWrite
    \/ UploadEnqueue
    \/ EngineAdvance

SpecUpload == InitUpload /\ [][NextUpload]_vars

UploadDeletedFiles == [i \in 1..Len(upDeleted) |-> upDeleted[i].file]

\* C8 (Scenario A generalised): when the write of an upload of size s
\* proceeds, the files deleted for it are exactly the shortest oldest-first
\* prefix of the directory that brings usage + s within the budget (for
\* an incoming file within the size limit).
C8_EvictsForIncomingSize ==
    upPc = "write" /\ upSize <= MAX_FILE_SIZE =>
        LET D == UploadDeletedFiles
        IN  /\ \A i \in 1..Len(D) : SeqRange(SubSeq(D, 1, i)) \in OldestFirstPrefixes(upStart)
            /\ Suffices(upStart, SeqRange(D), upSize, max_storage)
            /\ D # <<>> =>
                 ~Suffices(upStart, SeqRange(SubSeq(D, 1, Len(D) - 1)), upSize, max_storage)

-----------------------------------------------------------------------------
(* Playback Monitor: start_mpd_monitor (mpd_manager.rs:415-531) *)

\* get_current_track, mpd_manager.rs:199-227: an error when Status fails;
\* a failed CurrentSong reads as no track.
GetCurrentTrack(e, statusOk, csOk, metadata) ==
    IF ~statusOk THEN [ok |-> FALSE, value |-> [track |-> None, state |-> "stop"]]
    ELSE LET song == CurrentSongCmd(e.queue, e.current, csOk)
         IN  [ok |-> TRUE,
              value |-> [track |-> IF song = None THEN None
                                   ELSE Some(SongInQueueToTrack(song[1], metadata)),
                         state |-> e.state]]

Cmd(name, id, to, ok) == [cmd |-> name, id |-> id, to |-> to, ok |-> ok]
Note(type, data) == [type |-> type, data |-> data]
QueueUpdate == Note("queue_update", None)

\* Mutant: the tick ends with a queue_update instead of the current track.
CurrentTrackNoteAsQueueUpdate(current) == QueueUpdate

CurrentTrackNote(current) == Note("current_track", Some(current))

\* Mutant: the track moves although usage has reached the budget.
UnderBudgetOrAt(current_size, max) == current_size <= max

\* mpd_manager.rs:448.
UnderBudget(current_size, max) == current_size < max

\* Mutant: the track is moved to the head of the queue.
MoveTargetFront(queue_len) == 0

\* mpd_manager.rs:456: SongPosition(queue_len - 1).
MoveTarget(queue_len) == queue_len - 1

\* The tick begins: the sleep is over and get_current_track runs
\* (mpd_manager.rs:422-425, 525-527).
MonitorStatus ==
    /\ monPc = "sleep"
    /\ \E statusOk, csOk \in BOOLEAN :
         LET r == GetCurrentTrack(EngineNow, statusOk, csOk, tracks_metadata)
         IN  IF r.ok
               THEN /\ monCurrent' = r.value
                    /\ monPc' = "detect"
                    /\ UNCHANGED ticked
               ELSE /\ monPc' = "sleep"
                    /\ ticked' = TRUE
                    /\ UNCHANGED monCurrent
    /\ tickPrev' = None
    /\ tickFile' = None
    /\ tickQueue' = <<>>
    /\ tickCmds' = <<>>
    /\ tickNotes' = <<>>
    /\ UNCHANGED <<previous_track_filename, engineVars, exceptMonitor>>

\* mpd_manager.rs:427-481, under the engine lock: the change of track is
\* detected and the previous track moved to the end of the queue.
MonitorDetect ==
    /\ monPc = "detect"
    /\ \E csOk, queueOk, moveOk \in BOOLEAN :
         LET current_song == CurrentSongCmd(mpdQueue, mpdCurrent, csOk)
             current_track_filename ==
                 IF current_song = None THEN None ELSE Some(current_song[1].file)
             changed == /\ previous_track_filename # None
                        /\ current_track_filename # None
                        /\ previous_track_filename[1] # current_track_filename[1]
             queue == mpdQueue
             hits == {i \in 1..Len(queue) : queue[i].file = previous_track_filename[1]}
             found == changed /\ queueOk /\ hits # {}
             prev_song == queue[CHOOSE i \in hits : \A j \in hits : i <= j]
             current_size == DirSize(files)
             queue_len == Len(queue)
             prev_pos_in_queue == PositionOfId(queue, prev_song.id)
             issues == /\ found
                       /\ UnderBudget(current_size, max_storage)
                       /\ prev_pos_in_queue < queue_len - 1
             cmds == <<Cmd("currentsong", NoSong, 0, csOk)>>
                     \o (IF changed THEN <<Cmd("queue", NoSong, 0, queueOk)>> ELSE <<>>)
                     \o (IF issues THEN <<Cmd("move", prev_song.id, MoveTarget(queue_len), moveOk)>>
                         ELSE <<>>)
         IN  /\ tickPrev' = previous_track_filename
             /\ tickFile' = current_track_filename
             /\ tickQueue' = mpdQueue
             /\ tickCmds' = cmds
             /\ IF issues /\ moveOk
                  THEN /\ EngineBecomes(MoveIdTo(EngineNow, prev_song.id, MoveTarget(queue_len)))
                       /\ tickNotes' = Append(tickNotes, QueueUpdate)
                       /\ monPc' = "sleep"
                       /\ ticked' = TRUE
                       /\ UNCHANGED previous_track_filename
                  ELSE /\ previous_track_filename' = current_track_filename
                       /\ monPc' = IF monCurrent.state = "stop" /\ monCurrent.track = None
                                     THEN "restart" ELSE "notify"
                       /\ UNCHANGED <<engineVars, tickNotes, ticked>>
    /\ UNCHANGED <<monCurrent, exceptMonitor>>

\* mpd_manager.rs:484-507: the queue has played to its end; it is started
\* again from its first entry.
MonitorRestart ==
    /\ monPc = "restart"
    /\ \E queueOk, playOk \in BOOLEAN :
         IF queueOk /\ mpdQueue # <<>>
           THEN /\ tickCmds' = tickCmds \o <<Cmd("queue", NoSong, 0, queueOk), Cmd("play", NoSong, 0, playOk)>>
                /\ IF playOk THEN EngineBecomes(PlaySong(EngineNow, 0)) ELSE UNCHANGED engineVars
           ELSE /\ tickCmds' = Append(tickCmds, Cmd("queue", NoSong, 0, queueOk))
                /\ UNCHANGED engineVars
    /\ monPc' = "refetch"
    /\ UNCHANGED <<previous_track_filename, monCurrent, ticked, tickPrev, tickFile, tickQueue, tickNotes>>
    /\ UNCHANGED exceptMonitor

\* Mutant: without the `continue` of line 515 the tick goes on to the
\* broadcast of its snapshot.
MonitorRefetchAndGoOn ==
    /\ monPc = "refetch"
    /\ \E statusOk, csOk \in BOOLEAN :
         LET r == GetCurrentTrack(EngineNow, statusOk, csOk, tracks_metadata)
         IN  tickNotes' = IF r.ok THEN Append(tickNotes, [type |-> "current_track", data |-> <<r.value>>])
                          ELSE tickNotes
    /\ monPc' = "notify"
    /\ UNCHANGED <<previous_track_filename, monCurrent, ticked, tickPrev, tickFile, tickQueue, tickCmds>>
    /\ UNCHANGED <<engineVars, tracks_metadata, trackerVars, wsVars, callVars, storageVars, uploadVars, extraVars>>

\* mpd_manager.rs:508-516: the current track is resolved again and
\* broadcast; when that fails the tick goes on to the broadcast below.
MonitorRefetch ==
    /\ monPc = "refetch"
    /\ \E statusOk, csOk \in BOOLEAN :
         LET r == GetCurrentTrack(EngineNow, statusOk, csOk, tracks_metadata)
         IN  IF r.ok
               THEN /\ tickNotes' = Append(tickNotes, CurrentTrackNote(r.value))
                    /\ monPc' = "sleep"
                    /\ ticked' = TRUE
               ELSE /\ monPc' = "notify"
                    /\ UNCHANGED <<tickNotes, ticked>>
    /\ UNCHANGED <<previous_track_filename, monCurrent, tickPrev, tickFile, tickQueue, tickCmds>>
    /\ UNCHANGED <<engineVars, exceptMonitor>>

\* mpd_manager.rs:519-523: current_track is broadcast with the snapshot
\* taken at the start of the tick.
MonitorNotify ==
    /\ monPc = "notify"
    /\ tickNotes' = Append(tickNotes, CurrentTrackNote(monCurrent))
    /\ monPc' = "sleep"
    /\ ticked' = TRUE
    /\ UNCHANGED <<previous_track_filename, monCurrent, tickPrev, tickFile, tickQueue, tickCmds>>
    /\ UNCHANGED <<engineVars, exceptMonitor>>

\* The engine queues the monitor may start on: the first songs of the
\* pool, and a queue that holds the same file twice.
MonitorQueues ==
    {[i \in 1..n |-> Song(i, FileOfSong(i))] : n \in 0..MaxQueueLen}
        \cup {<<Song(1, FileA), Song(2, FileB), Song(3, FileA)>>}

\* One stored file of 100; with the budgets tried, usage is over, at or
\* under the budget.
MonitorDirectory == [n \in {FileA} |-> [size |-> MAX_FILE_SIZE, mtime |-> 1]]

InitMonitor ==
    /\ TrackerStart({})
    /\ mpdQueue \in MonitorQueues
    /\ mpdCurrent \in {NoSong} \cup {mpdQueue[i].id : i \in 1..Len(mpdQueue)}
    /\ mpdState \in IF mpdCurrent = NoSong THEN {"stop"} ELSE {"play", "pause", "stop"}
    /\ mpdNextId = Len(mpdQueue) + 1
    /\ tracks_metadata = << >>
    /\ WsStart
    /\ CallsIdle
    /\ files = MonitorDirectory
    /\ max_storage \in Budgets
    /\ UploadIdle
    /\ MonitorStart
    /\ ExtrasIdle

NextMonitor ==
    \/ MonitorStatus
    \/ MonitorDetect
    \/ MonitorRestart
    \/ MonitorRefetch
    \/ MonitorNotify
    \/ EngineAdvance

SpecMonitor == InitMonitor /\ [][NextMonitor]_vars

\* The tick now under way, or the one just ended, has compared the
\* filenames (every tick that gets that far broadcasts before it ends).
TickCompared ==
    \/ monPc \in {"restart", "refetch", "notify"}
    \/ monPc = "sleep" /\ tickNotes # <<>>

\* The tick saw the current filename change from A = tickPrev to B = tickFile.
TickSawChange == TickCompared /\ tickPrev # None /\ tickFile # None /\ tickPrev[1] # tickFile[1]

MoveIssued == \E i \in 1..Len(tickCmds) : tickCmds[i].cmd = "move"

\* 0-based position of the first entry of the queue with this file, -1 if none.
PositionOfFile(queue, file) ==
    LET hits == {i \in 1..Len(queue) : queue[i].file = file}
    IN  IF hits = {} THEN -1 ELSE (CHOOSE i \in hits : \A j \in hits : i <= j) - 1

\* A = tickPrev was in the queue and not at its last position.
PrevNotLast ==
    /\ PositionOfFile(tickQueue, tickPrev[1]) >= 0
    /\ PositionOfFile(tickQueue, tickPrev[1]) < Len(tickQueue) - 1

TickEnded == monPc = "sleep" /\ ticked

CountNotes(type) == Cardinality({i \in 1..Len(tickNotes) : tickNotes[i].type = type})

CommandsSucceeded(names) == \A i \in 1..Len(tickCmds) : tickCmds[i].cmd \in names => tickCmds[i].ok

\* A ended at the last position, one queue_update and no current_track.
Relocated ==
    /\ mpdQueue # <<>>
    /\ mpdQueue[Len(mpdQueue)].file = tickPrev[1]
    /\ CountNotes("queue_update") = 1
    /\ CountNotes("current_track") = 0

\* C10 (Scenario C) as stated: a tick that sees the change from A to B with
\* storage under budget and A not already last ends with A at the last
\* queue position, exactly one queue_update and no current_track broadcast.
C10_RelocationTick ==
    TickEnded /\ TickSawChange /\ PrevNotLast /\ DirSize(files) < max_storage => Relocated

\* C10 amended: the same when the tick's Queue and Move commands succeed;
\* when one of them fails the queue is as it was and the tick broadcasts one
\* current_track and no queue_update.
C10_RelocationTickWhenCommandsSucceed ==
    TickEnded /\ TickSawChange /\ PrevNotLast /\ DirSize(files) < max_storage =>
        IF CommandsSucceeded({"queue", "move"})
          THEN Relocated
          ELSE /\ mpdQueue = tickQueue
               /\ CountNotes("queue_update") = 0
               /\ CountNotes("current_track") = 1

\* A tick has moved A from the head of a queue of three to its end.
C10_Witness ==
    /\ TickEnded
    /\ TickSawChange
    /\ PrevNotLast
    /\ DirSize(files) < max_storage
    /\ Len(tickQueue) >= 3
    /\ PositionOfFile(tickQueue, tickPrev[1]) = 0
    /\ Relocated
    /\ mpdQueue # tickQueue

-----------------------------------------------------------------------------
(* add_to_queue (playlist.rs:34-70) *)

exceptClient == <<trackerVars, tracks_metadata, wsVars, callVars, storageVars, uploadVars, monitorVars, afVars, fnVars, lockVars, ctVars, cuVars>>

\* Mutant: an id the registry does not hold is enqueued under a Track built
\* from the id.
AddToQueueLookupOrBuild ==
    /\ aqPc = "start"
    /\ aqTrack' = IF aqTrackId \in DOMAIN tracks_metadata
                    THEN Some(tracks_metadata[aqTrackId])
                    ELSE Some([id |-> aqTrackId, filename |-> aqTrackId])
    /\ aqPc' = "enqueue"
    /\ UNCHANGED <<aqResponse, aqTrackId, aqNotes, engineVars, exceptClient>>

\* playlist.rs:40-48: the track is looked up in the registry and cloned.
AddToQueueLookup ==
    /\ aqPc = "start"
    /\ IF aqTrackId \in DOMAIN tracks_metadata
         THEN /\ aqTrack' = Some(tracks_metadata[aqTrackId])
              /\ aqPc' = "enqueue"
              /\ UNCHANGED aqResponse
         ELSE /\ aqResponse' = "not_found"
              /\ aqPc' = "done"
              /\ UNCHANGED aqTrack
    /\ UNCHANGED <<aqTrackId, aqNotes, engineVars, exceptClient>>

\* playlist.rs:50-69: add_file_to_mpd, then the queue_update broadcast.
AddToQueueEnqueue ==
    /\ aqPc = "enqueue"
    /\ \E failAt \in FailurePoints, csOk \in BOOLEAN :
         LET r == AddFileToMpd(EngineNow, aqTrack[1].filename, failAt, csOk)
         IN  /\ EngineBecomes(r.engine)
             /\ aqNotes' = IF r.ok THEN Append(aqNotes, QueueUpdate) ELSE aqNotes
             /\ aqResponse' = IF r.ok THEN "ok" ELSE "error"
    /\ aqPc' = "done"
    /\ UNCHANGED <<aqTrackId, aqTrack, exceptClient>>

\* The track ids a client may ask for: a registered one and an unknown one.
RequestedTrackIds == {TrackIdOf(FileA), <<"z">>}

\* The monitor, and one add_to_queue request that runs between its steps.
InitMonitorClients ==
    /\ TrackerStart({})
    /\ mpdQueue \in MonitorQueues
    /\ mpdCurrent \in {NoSong} \cup {mpdQueue[i].id : i \in 1..Len(mpdQueue)}
    /\ mpdState \in IF mpdCurrent = NoSong THEN {"stop"} ELSE {"play", "pause", "stop"}
    /\ mpdNextId = Len(mpdQueue) + 1
    /\ files = MonitorDirectory
    /\ max_storage \in Budgets
    /\ tracks_metadata = RegistryOf(files)
    /\ WsStart
    /\ CallsIdle
    /\ UploadIdle
    /\ MonitorStart
    /\ aqPc = "start"
    /\ aqTrackId \in RequestedTrackIds
    /\ aqTrack = None
    /\ aqNotes = <<>>
    /\ aqResponse = "none"
    /\ EnqueueCallIdle
    /\ FilenameIdle
    /\ LocksIdle
    /\ CurrentTrackCallIdle
    /\ ConcurrentUploadsIdle

NextMonitorClients ==
    \/ MonitorStatus
    \/ MonitorDetect
    \/ MonitorRestart
    \/ MonitorRefetch
    \/ MonitorNotify
    \/ EngineAdvance
    \/ AddToQueueLookup
    \/ AddToQueueEnqueue

SpecMonitorClients == InitMonitorClients /\ [][NextMonitorClients]_vars

\* This step of the monitor issues Play::song(SongPosition(0)).
PlayIssuedInStep ==
    /\ monPc = "restart"
    /\ monPc' = "refetch"
    /\ \E i \in 1..Len(tickCmds') : tickCmds'[i].cmd = "play"

\* C11: whenever the monitor issues the restart command, the engine is at
\* that moment stopped, without a current track and with a non-empty queue,
\* whatever enqueue ran since the monitor's status snapshot.
C11_RestartOnlyWhenStopped ==
    [][PlayIssuedInStep => mpdState = "stop" /\ mpdCurrent = NoSong /\ mpdQueue # <<>>]_vars

-----------------------------------------------------------------------------
(* Scenario D: a tick on an engine with nothing to play *)

\* The engine is stopped, has no current track and an empty queue (in
\* SpecMonitor nothing changes that during a tick).
EngineExhausted == mpdState = "stop" /\ mpdCurrent = NoSong /\ mpdQueue = <<>>

\* The status fetch of the tick succeeded: the tick went on to its commands.
StatusFetched == tickCmds # <<>>

PlayIssued == \E i \in 1..Len(tickCmds) : tickCmds[i].cmd = "play"

NullTrackNote == Note("current_track", Some([track |-> None, state |-> "stop"]))

\* C12 (Scenario D) as stated: a tick on a stopped engine with no current
\* track and an empty queue issues no play command and broadcasts one
\* current_track notification whose track is null.
C12_EmptyQueueTick ==
    TickEnded /\ EngineExhausted => ~PlayIssued /\ tickNotes = <<NullTrackNote>>

\* C12 amended: the same when the status fetch of the tick succeeds; when it
\* fails the tick issues no command and broadcasts nothing.
C12_EmptyQueueTickWhenStatusFetched ==
    TickEnded /\ EngineExhausted =>
        /\ ~PlayIssued
        /\ IF StatusFetched THEN tickNotes = <<NullTrackNote>> ELSE tickNotes = <<>>

\* A tick on the exhausted engine has checked the queue for a restart and
\* broadcast the null track.
C12_Witness ==
    /\ TickEnded
    /\ EngineExhausted
    /\ \E i \in 1..Len(tickCmds) : tickCmds[i].cmd = "queue"
    /\ tickNotes = <<NullTrackNote>>

-----------------------------------------------------------------------------
(* The engine lock and the Track Registry lock *)
(*                                                                         *)
(* Every function that talks to the engine takes AppState.mpd_client (a    *)
(* tokio Mutex) for all of its commands; the registry is a tokio RwLock.   *)
(* Here each function is the sequence of its lock operations and engine    *)
(* commands, one sequence for each way through it: "acqE" and "relE" take  *)
(* and drop the engine guard, "acqR", "relR", "acqW" and "relW" the        *)
(* registry guards; "cmd?" is a command whose error makes the function     *)
(* return (`?`), "cmd" one whose error does not; "bc" is                   *)
(* broadcast_message; "ret" returns to the caller.                         *)

exceptLocks == <<trackerVars, engineVars, tracks_metadata, wsVars, callVars, storageVars, uploadVars, monitorVars, clientVars, afVars, fnVars, ctVars, cuVars>>

MonitorTask == 0
ClientTasks == 1..NumClients
LockTasks == {MonitorTask} \cup ClientTasks

Cmds(k) == [i \in 1..k |-> "cmd"]
Call(fn, must) == [fn |-> fn, must |-> must]

\* get_current_track, mpd_manager.rs:199-227: Status, CurrentSong, and for
\* a song the registry read of song_in_queue_to_track.
GetCurrentTrackPaths ==
    {<<"acqE", "cmd?", "cmd", "relE", "ret">>,
     <<"acqE", "cmd?", "cmd", "acqR", "relR", "relE", "ret">>}

\* get_queue, mpd_manager.rs:229-269: Queue, CurrentSong, and one registry
\* read for every entry listed (none, one or two here).
GetQueuePaths ==
    {<<"acqE", "cmd?", "cmd", "relE", "ret">>,
     <<"acqE", "cmd?", "cmd", "acqR", "relR", "relE", "ret">>,
     <<"acqE", "cmd?", "cmd", "acqR", "relR", "acqR", "relR", "relE", "ret">>}

\* add_file_to_mpd, mpd_manager.rs:75-197, under one guard: Update, Status,
\* Queue, CurrentSong, Add, Queue; Move and Queue when the track is not yet
\* at its target; Play when the engine is stopped.
AddFileToMpdPaths ==
    {<<"acqE", "cmd?", "cmd?", "cmd?", "cmd", "cmd?", "cmd?">> \o move \o play \o <<"relE", "ret">> :
        move \in {<<>>, <<"cmd?", "cmd?">>}, play \in {<<>>, <<"cmd?">>}}

\* remove_last_track_from_queue, mpd_manager.rs:12-73: Queue; for a
\* non-empty queue Delete, the registry written under the engine guard, the
\* guard dropped and queue_update sent.
RemoveLastPaths ==
    {<<"acqE", "cmd?", "relE", "ret">>,
     <<"acqE", "cmd?", "cmd?", "acqW", "relW", "relE", "bc", "ret">>}

\* The monitor's change detection, mpd_manager.rs:427-481: CurrentSong,
\* then Queue on a change, then Move.
DetectPaths ==
    {<<"acqE">> \o Cmds(k) \o <<"relE", "ret">> : k \in 1..3}

\* The monitor's restart, mpd_manager.rs:486-507: Queue, then Play.
RestartPaths ==
    {<<"acqE">> \o Cmds(k) \o <<"relE", "ret">> : k \in 1..2}

Paths(fn) ==
    CASE fn = "get_current_track" -> GetCurrentTrackPaths
      [] fn = "get_queue" -> GetQueuePaths
      [] fn = "add_file_to_mpd" -> AddFileToMpdPaths
      [] fn = "remove_last_track_from_queue" -> RemoveLastPaths
      [] fn = "detect" -> DetectPaths
      [] fn = "restart" -> RestartPaths
      [] fn = "insert" -> {<<"acqW", "relW", "ret">>}
      [] fn = "read" -> {<<"acqR", "ret">>}
      [] fn = "drop_read" -> {<<"relR", "ret">>}
      [] fn = "broadcast" -> {<<"bc", "ret">>}

\* upload_music, upload.rs:161-289: remove_last_track_from_queue not at
\* all, once or twice (its error is only logged); then the request is
\* refused, or the track is inserted into the registry, enqueued and, when
\* that succeeded, announced.
UploadPlans ==
    {rl \o rest :
        rl \in {<<>>,
                <<Call("remove_last_track_from_queue", FALSE)>>,
                <<Call("remove_last_track_from_queue", FALSE), Call("remove_last_track_from_queue", FALSE)>>},
        rest \in {<<>>,
                  <<Call("insert", FALSE), Call("add_file_to_mpd", TRUE), Call("broadcast", FALSE)>>}}

\* add_to_queue, playlist.rs:34-70: the read guard `metadata` lives until
\* the handler returns, so it is held across add_file_to_mpd and the
\* broadcast.
AddToQueuePlans ==
    {<<Call("read", FALSE), Call("drop_read", FALSE)>>,
     <<Call("read", FALSE), Call("add_file_to_mpd", TRUE), Call("broadcast", FALSE), Call("drop_read", FALSE)>>}

\* get_queue_list and get_current, playlist.rs:8-32.
ListingPlans == {<<Call("get_queue", FALSE)>>, <<Call("get_current_track", FALSE)>>}

ClientPlans == UploadPlans \cup AddToQueuePlans \cup ListingPlans

\* One tick of the monitor, mpd_manager.rs:422-528: the tick is skipped when
\* the first get_current_track fails; a relocation or no restart leads to
\* one broadcast; a restart is followed by a second get_current_track.
TickPlans ==
    {<<Call("get_current_track", TRUE), Call("detect", FALSE), Call("broadcast", FALSE)>>,
     <<Call("get_current_track", TRUE), Call("detect", FALSE), Call("restart", FALSE),
       Call("get_current_track", FALSE), Call("broadcast", FALSE)>>}

\* What is left of an operation when a call that must succeed has failed:
\* only the guards still held are dropped.
Unwind(plan) == SelectSeq(plan, LAMBDA c : c.fn = "drop_read")

NextStep(t) == IF script[t] = <<>> THEN "none" ELSE Head(script[t])

Advance(t) == script' = [script EXCEPT ![t] = Tail(script[t])]

\* Mutant: the engine guard is handed out although it is held.
EngineFreeAlways(holders) == TRUE

\* tokio::sync::Mutex: the guard is free.
EngineFree(holders) == holders = {}

\* The monitor's sleep is over and a tick begins (mpd_manager.rs:421-422).
MonitorTickBegins ==
    /\ script[MonitorTask] = <<>>
    /\ lkOp[MonitorTask] = <<>>
    /\ \E plan \in TickPlans : lkOp' = [lkOp EXCEPT ![MonitorTask] = plan]
    /\ UNCHANGED <<engineHolders, metaReaders, metaWriters, script, issued, exceptLocks>>

\* The task enters the next function of its operation, on one of the ways
\* through it.
NextCall(t) ==
    /\ script[t] = <<>>
    /\ lkOp[t] # <<>>
    /\ \E p \in Paths(Head(lkOp[t]).fn) : script' = [script EXCEPT ![t] = p]
    /\ UNCHANGED <<engineHolders, metaReaders, metaWriters, lkOp, issued, exceptLocks>>

\* The function returns Ok.
ReturnOk(t) ==
    /\ NextStep(t) = "ret"
    /\ script' = [script EXCEPT ![t] = <<>>]
    /\ lkOp' = [lkOp EXCEPT ![t] = Tail(lkOp[t])]
    /\ UNCHANGED <<engineHolders, metaReaders, metaWriters, issued, exceptLocks>>

\* The function returns Err.
ReturnErr(t) ==
    /\ NextStep(t) = "err"
    /\ script' = [script EXCEPT ![t] = <<>>]
    /\ lkOp' = [lkOp EXCEPT ![t] = IF Head(lkOp[t]).must
                                     THEN Unwind(Tail(lkOp[t])) ELSE Tail(lkOp[t])]
    /\ UNCHANGED <<engineHolders, metaReaders, metaWriters, issued, exceptLocks>>

\* state.mpd_client.lock().await
AcquireEngine(t) ==
    /\ NextStep(t) = "acqE"
    /\ EngineFree(engineHolders)
    /\ engineHolders' = engineHolders \cup {t}
    /\ issued' = [issued EXCEPT ![t] = 0]
    /\ Advance(t)
    /\ UNCHANGED <<metaReaders, metaWriters, lkOp, exceptLocks>>

\* client.command(..).await answers.
EngineCommand(t) ==
    /\ NextStep(t) \in {"cmd", "cmd?"}
    /\ issued' = [issued EXCEPT ![t] = issued[t] + 1]
    /\ Advance(t)
    /\ UNCHANGED <<engineHolders, metaReaders, metaWriters, lkOp, exceptLocks>>

\* client.command(..).await.map_err(..)? answers with an error: the
\* function drops its guard and returns.
CommandFails(t) ==
    /\ NextStep(t) = "cmd?"
    /\ issued' = [issued EXCEPT ![t] = issued[t] + 1]
    /\ script' = [script EXCEPT ![t] = <<"relE", "err">>]
    /\ UNCHANGED <<engineHolders, metaReaders, metaWriters, lkOp, exceptLocks>>

\* The engine guard is dropped.
ReleaseEngine(t) ==
    /\ NextStep(t) = "relE"
    /\ engineHolders' = engineHolders \ {t}
    /\ issued' = [issued EXCEPT ![t] = 0]
    /\ Advance(t)
    /\ UNCHANGED <<metaReaders, metaWriters, lkOp, exceptLocks>>

\* state.tracks_metadata.read().await
AcquireRegistryRead(t) ==
    /\ NextStep(t) = "acqR"
    /\ metaWriters = {}
    /\ metaReaders' = metaReaders \cup {t}
    /\ Advance(t)
    /\ UNCHANGED <<engineHolders, metaWriters, lkOp, issued, exceptLocks>>

ReleaseRegistryRead(t) ==
    /\ NextStep(t) = "relR"
    /\ metaReaders' = metaReaders \ {t}
    /\ Advance(t)
    /\ UNCHANGED <<engineHolders, metaWriters, lkOp, issued, exceptLocks>>

\* state.tracks_metadata.write().await
AcquireRegistryWrite(t) ==
    /\ NextStep(t) = "acqW"
    /\ metaWriters = {}
    /\ metaReaders = {}
    /\ metaWriters' = {t}
    /\ Advance(t)
    /\ UNCHANGED <<engineHolders, metaReaders, lkOp, issued, exceptLocks>>

ReleaseRegistryWrite(t) ==
    /\ NextStep(t) = "relW"
    /\ metaWriters' = metaWriters \ {t}
    /\ Advance(t)
    /\ UNCHANGED <<engineHolders, metaReaders, lkOp, issued, exceptLocks>>

\* state.broadcast_message(..).await
Broadcast(t) ==
    /\ NextStep(t) = "bc"
    /\ Advance(t)
    /\ UNCHANGED <<engineHolders, metaReaders, metaWriters, lkOp, issued, exceptLocks>>

TaskStep(t) ==
    \/ NextCall(t)
    \/ ReturnOk(t)
    \/ ReturnErr(t)
    \/ AcquireEngine(t)
    \/ EngineCommand(t)
    \/ ReleaseEngine(t)
    \/ AcquireRegistryRead(t)
    \/ ReleaseRegistryRead(t)
    \/ AcquireRegistryWrite(t)
    \/ ReleaseRegistryWrite(t)
    \/ Broadcast(t)

\* The monitor is asleep between two ticks, and each client is about to
\* run one operation, or none.
InitLocks ==
    /\ TrackerStart({})
    /\ EngineIdle
    /\ tracks_metadata = << >>
    /\ WsStart
    /\ CallsIdle
    /\ StorageEmpty
    /\ UploadIdle
    /\ MonitorStart
    /\ ClientIdle
    /\ EnqueueCallIdle
    /\ FilenameIdle
    /\ CurrentTrackCallIdle
    /\ ConcurrentUploadsIdle
    /\ engineHolders = {}
    /\ metaReaders = {}
    /\ metaWriters = {}
    /\ script = [t \in LockTasks |-> <<>>]
    /\ issued = [t \in LockTasks |-> 0]
    /\ lkOp \in [LockTasks -> ClientPlans \cup {<<>>}]
    /\ lkOp[MonitorTask] = <<>>

NextLocks ==
    \/ MonitorTickBegins
    \/ \E t \in LockTasks : NextCall(t)
    \/ \E t \in LockTasks : ReturnOk(t)
    \/ \E t \in LockTasks : ReturnErr(t)
    \/ \E t \in LockTasks : AcquireEngine(t)
    \/ \E t \in LockTasks : EngineCommand(t)
    \/ \E t \in LockTasks : CommandFails(t)
    \/ \E t \in LockTasks : ReleaseEngine(t)
    \/ \E t \in LockTasks : AcquireRegistryRead(t)
    \/ \E t \in LockTasks : ReleaseRegistryRead(t)
    \/ \E t \in LockTasks : AcquireRegistryWrite(t)
    \/ \E t \in LockTasks : ReleaseRegistryWrite(t)
    \/ \E t \in LockTasks : Broadcast(t)

SpecLocks == InitLocks /\ [][NextLocks]_vars

\* The runtime polls every task that can run, the sleep of the monitor
\* ends, the engine answers every command, and tokio's Mutex and RwLock
\* serve their waiters in order, so a task waiting for a guard that keeps
\* being released obtains it.
SpecLocksFair ==
    /\ InitLocks
    /\ [][NextLocks]_vars
    /\ WF_vars(MonitorTickBegins)
    /\ \A t \in LockTasks : SF_vars(TaskStep(t))

MonitorAsleep == script[MonitorTask] = <<>> /\ lkOp[MonitorTask] = <<>>

\* C13: whatever the clients do, the monitor keeps completing ticks: it is
\* again and again asleep between two ticks, and again and again in a tick.
C13_MonitorKeepsTicking == ([]<>MonitorAsleep) /\ ([]<>~MonitorAsleep)

\* The monitor waits for the engine guard, which a reclamation holds while
\* it waits for the registry, which an enqueue request holds while it
\* waits for the engine guard.
MonitorBlocked ==
    /\ NextStep(MonitorTask) = "acqE"
    /\ \E t \in ClientTasks : t \in metaReaders /\ NextStep(t) = "acqE"
    /\ \E t \in ClientTasks : t \in engineHolders /\ NextStep(t) = "acqW"

\* The task has issued a command under its guard and has another one to
\* issue before it drops the guard.
MidSequence(t) ==
    /\ issued[t] >= 1
    /\ \E i \in 1..Len(script[t]) :
         /\ script[t][i] \in {"cmd", "cmd?"}
         /\ \A j \in 1..(i - 1) : script[t][j] # "relE"

\* C18: at most one task holds the engine guard, a command is issued only
\* by the task that holds it, and so between the first and the last command
\* of one sequence no other task issues a command.
C18_EngineLockExclusive ==
    /\ Cardinality(engineHolders) <= 1
    /\ \A t \in LockTasks : NextStep(t) \in {"cmd", "cmd?"} => t \in engineHolders
    /\ \A t \in LockTasks : MidSequence(t) =>
          \A u \in LockTasks \ {t} : NextStep(u) \notin {"cmd", "cmd?"} /\ issued[u] = 0

C18_Witness ==
    \E t \in LockTasks : \E u \in LockTasks \ {t} :
        MidSequence(t) /\ NextStep(u) = "acqE"

-----------------------------------------------------------------------------
(* add_file_to_mpd as a function of the engine state (mpd_manager.rs:75-197) *)

exceptEnqueue == <<trackerVars, tracks_metadata, wsVars, callVars, storageVars, uploadVars, monitorVars, clientVars, fnVars, lockVars, ctVars, cuVars>>

\* One call of add_file_to_mpd: the engine as it was, the command that
\* fails, the result and the engine as the call leaves it.
CallAddFileToMpd ==
    /\ Len(mpdQueue) < MaxQueueLen
    /\ mpdNextId <= MaxSongId
    /\ \E filename \in FileNames, failAt \in FailurePoints, csOk \in BOOLEAN :
         LET r == AddFileToMpd(EngineNow, filename, failAt, csOk)
         IN  /\ afFile' = filename
             /\ afFailAt' = failAt
             /\ afCsOk' = csOk
             /\ afBefore' = EngineNow
             /\ afDone' = TRUE
             /\ afResult' = [ok |-> r.ok, play |-> r.play]
             /\ EngineBecomes(r.engine)
    /\ UNCHANGED exceptEnqueue

InitEnqueue ==
    /\ TrackerStart({})
    /\ \E e \in EngineStarts :
         /\ mpdQueue = e.queue
         /\ mpdCurrent = e.current
         /\ mpdState = e.state
         /\ mpdNextId = Len(e.queue) + 1
    /\ tracks_metadata = << >>
    /\ WsStart
    /\ CallsIdle
    /\ StorageEmpty
    /\ UploadIdle
    /\ MonitorStart
    /\ ExtrasIdle

NextEnqueue ==
    \/ CallAddFileToMpd
    \/ EngineAdvance

SpecEnqueue == InitEnqueue /\ [][NextEnqueue]_vars

\* The 0-based position of the entry the last call appended, or -1.
NewEntryPosition == PositionOfId(mpdQueue, afBefore.nextId)

\* The 0-based position the engine's current song had in the queue before
\* the last call, or -1 when there was none or it was not in the queue.
CurrentPositionBefore ==
    IF afBefore.current = NoSong THEN -1 ELSE PositionOfId(afBefore.queue, afBefore.current)

\* C14: after a successful add_file_to_mpd the new entry is one position
\* after the song that was current before the append (position 0 when there
\* was none or it was not in the queue), the queue is one entry longer and
\* the other entries are in the order they had.
C14_InsertedAfterCurrent ==
    afDone /\ afResult.ok =>
        /\ NewEntryPosition = CurrentPositionBefore + 1
        /\ Len(mpdQueue) = Len(afBefore.queue) + 1
        /\ RemoveAt(mpdQueue, NewEntryPosition) = afBefore.queue

\* mpd_manager.rs:146-148: the appended entry is not at its target.
MoveNeeded(e, csOk) ==
    Len(e.queue) # Min(TargetPosition(e.queue, CurrentSongCmd(e.queue, e.current, csOk)), Len(e.queue) + 1)

\* A command the last call issued has failed: one of those always issued,
\* CurrentSong, Move or the verifying Queue when a move was needed, Play
\* when the engine was stopped.
CommandFailed ==
    \/ afFailAt \in {CmdUpdate, CmdStatus, CmdQueueBefore, CmdAdd, CmdQueueAfter}
    \/ ~afCsOk /\ afFailAt \notin {CmdUpdate, CmdStatus, CmdQueueBefore}
    \/ afFailAt \in {CmdMove, CmdQueueVerify} /\ MoveNeeded(afBefore, afCsOk)
    \/ afFailAt = CmdPlay /\ afBefore.state = "stop"

\* C15: add_file_to_mpd returns a failure whenever a command it issued
\* has failed.
C15_FailsWhenACommandFails == afDone /\ CommandFailed => ~afResult.ok

AppendSucceeded == afFailAt \notin {CmdUpdate, CmdStatus, CmdQueueBefore, CmdAdd}

\* C16: once the append has succeeded the track is in the queue when the
\* call returns, success or failure, and after a failed move it is where
\* the append put it, at the end; when the append or an earlier command
\* fails the queue is as it was.
C16_NoRollback ==
    afDone =>
        /\ AppendSucceeded =>
              /\ NewEntryPosition >= 0
              /\ mpdQueue[NewEntryPosition + 1].file = afFile
              /\ Len(mpdQueue) = Len(afBefore.queue) + 1
        /\ AppendSucceeded /\ afFailAt = CmdMove /\ MoveNeeded(afBefore, afCsOk) =>
              NewEntryPosition = Len(afBefore.queue)
        /\ ~AppendSucceeded => mpdQueue = afBefore.queue

\* A call that moved the new entry and then failed at the verifying Queue.
C16_Witness ==
    /\ afDone
    /\ ~afResult.ok
    /\ afFailAt = CmdQueueVerify
    /\ MoveNeeded(afBefore, afCsOk)
    /\ NewEntryPosition >= 0
    /\ NewEntryPosition < Len(afBefore.queue)

-----------------------------------------------------------------------------
(* remove_last_track_from_queue: what it changes (mpd_manager.rs:12-73) *)

\* A step of the upload in which remove_last_track_from_queue ran.
RemoveLastStep == upPc \in {"remove_first", "remove_retry"} /\ upPc' # upPc

LastFilename == mpdQueue[Len(mpdQueue)].file

\* The entry at the highest position left the queue, and only it.
LastEntryRemoved ==
    /\ Len(mpdQueue') = Len(mpdQueue) - 1
    /\ \A i \in 1..Len(mpdQueue') : mpdQueue'[i] = mpdQueue[i]

\* The registry lost the entry under the leading segment of the file name,
\* and only it.
RegistryEntryRemoved ==
    LET track_id == FirstSegment(FileStem(LastFilename))
    IN  /\ DOMAIN tracks_metadata' = DOMAIN tracks_metadata \ {track_id}
        /\ \A id \in DOMAIN tracks_metadata' : tracks_metadata'[id] = tracks_metadata[id]

RemovedLast ==
    /\ LastEntryRemoved
    /\ RegistryEntryRemoved
    /\ rlResult' = [ok |-> TRUE, removed |-> Some(LastFilename)]

\* C17 as stated: on a non-empty queue the last entry and its registry
\* entry go, nothing else does, and the file name is returned; on an empty
\* queue none is returned and queue, registry and files stay.
C17_RemoveLastFrame ==
    [][RemoveLastStep =>
          IF mpdQueue # <<>> THEN RemovedLast
          ELSE rlResult' = [ok |-> TRUE, removed |-> None] /\ UNCHANGED <<mpdQueue, tracks_metadata, files>>]_vars

\* C17: the same when the Queue command and, on a non-empty queue, the
\* Delete command succeed; when one of them fails the call returns an error
\* and queue, registry and files stay.
C17_RemoveLastFrameWhenCommandsSucceed ==
    [][RemoveLastStep =>
          IF ~rlResult'.ok
            THEN rlResult'.removed = None /\ UNCHANGED <<mpdQueue, tracks_metadata, files>>
            ELSE IF mpdQueue # <<>> THEN RemovedLast
            ELSE rlResult' = [ok |-> TRUE, removed |-> None] /\ UNCHANGED <<mpdQueue, tracks_metadata, files>>]_vars

\* remove_last_track_from_queue has just removed the last of several
\* queue entries, and other tracks are still registered.
C17_Witness ==
    /\ upPc \in {"free", "free_retry"}
    /\ rlResult.ok
    /\ rlResult.removed # None
    /\ mpdQueue # <<>>
    /\ FirstSegment(FileStem(rlResult.removed[1])) \notin DOMAIN tracks_metadata
    /\ DOMAIN tracks_metadata # {}

-----------------------------------------------------------------------------
(* The Track Registry and the files in storage (upload.rs:96-135, 161-289) *)

\* C19: when an upload request has completed, every Track Registry entry
\* refers to a file that is still in storage: whatever deleted a track's
\* file also removed its registry entry.
C19_RegistryRefersToStoredFiles ==
    upPc = "done" =>
        \A id \in DOMAIN tracks_metadata : tracks_metadata[id].filename \in DOMAIN files

-----------------------------------------------------------------------------
(* The stored file name and the id recovered from it (upload.rs:148-213) *)

exceptFilename == <<trackerVars, engineVars, wsVars, callVars, storageVars, uploadVars, monitorVars, clientVars, afVars, lockVars, ctVars, cuVars>>

\* Characters of a client's file name: a letter, the separators the
\* recovery looks for, a path separator, and the letter of the extension.
NameChars == {"u", "_", ".", "/", "m"}
ClientFilenames == UNION {[1..n -> NameChars] : n \in 1..MaxNameLen}

\* Uuid::new_v4().to_string(): hexadecimal digits and '-'.
GeneratedIds == {<<"n">>, <<"n", "-", "p">>, <<"p", "n">>}

\* Path::file_name: the last component of the path.
LastComponent(f) ==
    LET slashes == {i \in 1..Len(f) : f[i] = "/"}
    IN  IF slashes = {} THEN f ELSE SubSeq(f, Max(slashes) + 1, Len(f))

\* Path::extension: what follows the final '.' of the last component, none
\* when there is no '.' or only a leading one.
Extension(f) ==
    LET name == LastComponent(f)
        dots == {i \in 1..Len(name) : name[i] = "."}
    IN  IF dots = {} \/ Max(dots) = 1 THEN <<>> ELSE SubSeq(name, Max(dots) + 1, Len(name))

\* upload.rs:150-158: the extensions accepted.
ValidExtensions == {<<"m">>}

\* sanitize_filename::sanitize: the characters no file name may hold are
\* taken out.
Sanitize(f) == SelectSeq(f, LAMBDA c : c # "/")

\* upload.rs:148-158, 209-213, 265-268: the extension is validated, the id
\* generated, the stored name built and the track registered under the id.
BuildFilename ==
    /\ fnFinal = None
    /\ \E filename \in ClientFilenames, track_id \in GeneratedIds :
         /\ Extension(filename) \in ValidExtensions
         /\ fnId' = track_id
         /\ fnSanitized' = Sanitize(filename)
         /\ fnFinal' = Some(FinalFilename(track_id, Sanitize(filename)))
         /\ tracks_metadata' = Put(tracks_metadata, track_id,
                                   [id |-> track_id, filename |-> FinalFilename(track_id, Sanitize(filename))])
    /\ UNCHANGED exceptFilename

InitFilename ==
    /\ TrackerStart({})
    /\ EngineIdle
    /\ tracks_metadata = << >>
    /\ WsStart
    /\ CallsIdle
    /\ StorageEmpty
    /\ UploadIdle
    /\ MonitorStart
    /\ ExtrasIdle

NextFilename == BuildFilename

SpecFilename == InitFilename /\ [][NextFilename]_vars

\* C20 (P5): the part of the stored name's stem before the first '_' is the
\* id generated at upload, a registry lookup by it finds the uploaded
\* track, and remove_last_track_from_queue derives the same id as
\* song_in_queue_to_track.
C20_IdRecovered ==
    fnFinal # None =>
        /\ TrackIdOf(fnFinal[1]) = fnId
        /\ TrackIdOf(fnFinal[1]) \in DOMAIN tracks_metadata
        /\ tracks_metadata[TrackIdOf(fnFinal[1])].filename = fnFinal[1]
        /\ RemoveLastTrackId(fnFinal[1]) = TrackIdOf(fnFinal[1])

\* An upload whose own name holds a '_' and more than one '.'.
C20_Witness ==
    /\ fnFinal # None
    /\ \E i \in 1..Len(fnSanitized) : fnSanitized[i] = "_"
    /\ Cardinality({i \in 1..Len(fnSanitized) : fnSanitized[i] = "."}) >= 2
    /\ Len(fnId) > 1

-----------------------------------------------------------------------------
(* try_acquire: its result and its effect (state.rs:29-51) *)

\* The count of a source: that of its entry, zero without one.
CountOf(map, ip) == IF ip \in DOMAIN map THEN map[ip] ELSE 0

\* The step in which try_acquire of task t decides and returns.
AcquireReturns(t) == pc[t] \in {"acq_check", "acq_write"} /\ pc'[t] \in {"held", "rejected"}

\* C21: try_acquire returns true and adds one to the count of its source
\* iff that count is below the per-source maximum; otherwise it returns
\* false and the mapping stays as it is; other sources keep their counts.
C21_AcquireIffBelowMaximum ==
    [][\A t \in DOMAIN pc :
          AcquireReturns(t) =>
              IF CountOf(connections, ipOf[t]) < max_per_ip
                THEN /\ pc'[t] = "held"
                     /\ connections' = Put(connections, ipOf[t], CountOf(connections, ipOf[t]) + 1)
                ELSE /\ pc'[t] = "rejected"
                     /\ connections' = connections]_vars

-----------------------------------------------------------------------------
(* Entries of the connection mapping (state.rs:54-70) *)

\* No call of try_acquire or release is between its first and its last step.
NoCallInProgress == \A t \in DOMAIN pc : pc[t] \notin {"acq_check", "acq_write", "release", "rel_write"}

\* C22: whenever no try_acquire or release call is in progress, no source
\* of the mapping has the count zero.
C22_NoZeroEntryAtRest ==
    NoCallInProgress => \A ip \in DOMAIN connections : connections[ip] # 0

-----------------------------------------------------------------------------
(* The order of the eviction measures of an upload (upload.rs:161-207) *)

\* The upload passes the extension check with the usage at or above the
\* budget.
StartsAtBudget ==
    /\ upPc = "start"
    /\ upPc' # "start"
    /\ upResponse' # "bad_request"
    /\ DirSize(files) >= max_storage

\* A call of free_up_space returns false.
EvictionFails == upPc \in {"free", "free_retry"} /\ upPc' \notin {upPc, "write"}

\* Nothing of the new track exists: no file, no registry entry, no queue
\* entry.
NothingStored ==
    /\ upFile = None
    /\ \A n \in DOMAIN files : TrackIdOf(n) # NewTrackId
    /\ NewTrackId \notin DOMAIN tracks_metadata
    /\ \A i \in 1..Len(mpdQueue) : TrackIdOf(mpdQueue[i].file) # NewTrackId

-----------------------------------------------------------------------------
(* get_current_track on any engine state (mpd_manager.rs:199-227) *)

\* The positions, in seconds, the engine may report for the playing song.
MaxElapsed == 1

\* Status.elapsed: a position while the engine plays or is paused, none
\* when it is stopped.
StatusElapsed(state) ==
    IF state = "stop" THEN {None} ELSE {Some(s) : s \in 0..MaxElapsed}

\* Mutant: elapsed is copied from the status in both branches.
GetCurrentTrackElapsedOfStatus(e, status_elapsed, statusOk, csOk, metadata) ==
    IF ~statusOk
      THEN [ok |-> FALSE, value |-> [track |-> None, elapsed |-> None, state |-> "stop"]]
      ELSE LET song == CurrentSongCmd(e.queue, e.current, csOk)
           IN  [ok |-> TRUE,
                value |-> [track |-> IF song = None THEN None
                                     ELSE Some(SongInQueueToTrack(song[1], metadata)),
                           elapsed |-> status_elapsed,
                           state |-> e.state]]

\* get_current_track with the elapsed field of its CurrentTrack: an error
\* when Status fails (line 205); `if let Some(song) = ... .ok().flatten()`
\* (line 213) takes the else branch both when the engine has no current
\* song and when CurrentSong fails.
GetCurrentTrackResponse(e, status_elapsed, statusOk, csOk, metadata) ==
    IF ~statusOk
      THEN [ok |-> FALSE, value |-> [track |-> None, elapsed |-> None, state |-> "stop"]]
      ELSE LET song == CurrentSongCmd(e.queue, e.current, csOk)
           IN  IF song # None
                 THEN [ok |-> TRUE,
                       value |-> [track |-> Some(SongInQueueToTrack(song[1], metadata)),
                                  elapsed |-> status_elapsed,
                                  state |-> e.state]]
                 ELSE [ok |-> TRUE,
                       value |-> [track |-> None, elapsed |-> None, state |-> e.state]]

\* One call: the Status and CurrentSong commands each succeed or fail.
CallGetCurrentTrack ==
    /\ ~ctDone
    /\ \E status_elapsed \in StatusElapsed(mpdState), statusOk, csOk \in BOOLEAN :
         /\ ctElapsed' = status_elapsed
         /\ ctResult' = GetCurrentTrackResponse(EngineNow, status_elapsed, statusOk, csOk,
                                                tracks_metadata)
    /\ ctDone' = TRUE
    /\ UNCHANGED <<trackerVars, engineVars, tracks_metadata, wsVars, callVars, storageVars,
                   uploadVars, monitorVars, clientVars, afVars, fnVars, lockVars, cuVars>>

InitCurrentTrack ==
    /\ TrackerStart({})
    /\ mpdQueue \in Queues
    /\ mpdCurrent \in {NoSong} \cup {mpdQueue[i].id : i \in 1..Len(mpdQueue)}
    /\ mpdState \in IF mpdCurrent = NoSong THEN {"stop"} ELSE {"play", "pause", "stop"}
    /\ mpdNextId = MaxSongId + 1
    /\ tracks_metadata \in Registries
    /\ WsStart
    /\ CallsIdle
    /\ StorageEmpty
    /\ UploadIdle
    /\ MonitorStart
    /\ ExtrasIdle

NextCurrentTrack == CallGetCurrentTrack

SpecCurrentTrack == InitCurrentTrack /\ [][NextCurrentTrack]_vars

\* C24: every CurrentTrack returned by get_current_track with no track has
\* no elapsed either, whatever the engine state and whether or not the
\* CurrentSong command succeeded.
C24_NoElapsedWithoutTrack ==
    ctDone /\ ctResult.ok /\ ctResult.value.track = None => ctResult.value.elapsed = None

\* A call on a playing engine that reported a position, whose CurrentSong
\* command failed: the value has the state "play" and no track.
C24_Witness ==
    /\ ctDone
    /\ ctResult.ok
    /\ mpdState = "play"
    /\ mpdCurrent # NoSong
    /\ ctElapsed # None
    /\ ctResult.value.track = None
    /\ ctResult.value.state = "play"

-----------------------------------------------------------------------------
(* add_to_queue with an id the Track Registry does not hold *)

\* The lookup of add_to_queue (playlist.rs:40-41) runs in this step and does
\* not find the requested id.
LookupMisses ==
    /\ aqPc = "start"
    /\ aqPc' # "start"
    /\ aqTrackId \notin DOMAIN tracks_metadata

\* C25: add_to_queue with an id absent from the registry answers
\* track-not-found in the step of its lookup, which changes neither the
\* engine nor the registry and broadcasts nothing; a request answered that
\* way has fetched no track, never reaches add_file_to_mpd and has no
\* notification to its name.
C25_UnknownIdChangesNothing ==
    /\ [][LookupMisses =>
            /\ aqResponse' = "not_found"
            /\ aqPc' = "done"
            /\ UNCHANGED <<engineVars, tracks_metadata, aqNotes>>]_vars
    /\ [](aqResponse = "not_found" => aqPc = "done" /\ aqTrack = None /\ aqNotes = <<>>)

\* A request with an unknown id has been answered while the engine held a
\* queue and the registry held tracks.
C25_Witness ==
    /\ aqResponse = "not_found"
    /\ aqTrackId \notin DOMAIN tracks_metadata
    /\ tracks_metadata # << >>
    /\ mpdQueue # <<>>

-----------------------------------------------------------------------------
(* The notification of a monitor tick *)

\* The Move command of the tick succeeded: the tick relocated a track.
MoveSucceeded == \E i \in 1..Len(tickCmds) : tickCmds[i].cmd = "move" /\ tickCmds[i].ok

\* The tick found the engine stopped without a track and did not relocate:
\* it attempts the restart (mpd_manager.rs:484).
RestartAttempted ==
    /\ StatusFetched
    /\ ~MoveSucceeded
    /\ monCurrent.state = "stop"
    /\ monCurrent.track = None

\* The step that ends a tick which attempted the restart.
RestartTickEnds ==
    /\ monPc \in {"refetch", "notify"}
    /\ monPc' = "sleep"
    /\ monCurrent.state = "stop"
    /\ monCurrent.track = None

\* The step broadcasts one current_track resolved from the engine as it is
\* after the restart attempt.
BroadcastsReresolved ==
    \E csOk \in BOOLEAN :
        tickNotes' = <<[type |-> "current_track",
                        data |-> <<GetCurrentTrack(EngineNow, TRUE, csOk, tracks_metadata).value>>]>>

\* The notifications of a finished tick that did not attempt the restart,
\* and their number in every finished tick.
TickNotesWithoutRestart ==
    TickEnded =>
        IF ~StatusFetched THEN tickNotes = <<>>
        ELSE /\ Len(tickNotes) = 1
             /\ MoveSucceeded => tickNotes = <<QueueUpdate>>
             /\ ~MoveSucceeded => tickNotes[1].type = "current_track"
             /\ ~MoveSucceeded /\ ~RestartAttempted =>
                    tickNotes = <<[type |-> "current_track", data |-> <<monCurrent>>]>>

\* C26 as stated: a tick whose status fetch succeeds broadcasts exactly one
\* notification, queue_update if it relocated a track and otherwise
\* current_track with the CurrentTrack resolved in the tick, which after a
\* restart attempt is the one resolved again after it; a tick whose status
\* fetch fails broadcasts nothing.
C26_OneNotificationPerTick ==
    /\ []TickNotesWithoutRestart
    /\ [][RestartTickEnds => BroadcastsReresolved]_vars

\* C26 amended: after a restart attempt the notification carries the
\* CurrentTrack resolved again when that second resolution succeeds, and
\* the one resolved at the start of the tick when it fails.
C26_OneNotificationPerTickReresolvedIfPossible ==
    /\ []TickNotesWithoutRestart
    /\ [][RestartTickEnds =>
            IF monPc = "refetch" THEN BroadcastsReresolved
            ELSE tickNotes' = <<[type |-> "current_track", data |-> <<monCurrent>>]>>]_vars

\* A tick has restarted the queue, failed to resolve the current track
\* again and broadcast the stopped snapshot of its start while the engine
\* plays.
C26_Witness ==
    /\ TickEnded
    /\ RestartAttempted
    /\ \E i \in 1..Len(tickCmds) : tickCmds[i].cmd = "play" /\ tickCmds[i].ok
    /\ tickNotes = <<[type |-> "current_track", data |-> <<monCurrent>>]>>
    /\ mpdState = "play"

-----------------------------------------------------------------------------
(* Waiting for the engine under the Track Registry lock *)

\* The task is about to wait for the engine guard or for the answer to an
\* engine command.
AwaitsEngine(t) == NextStep(t) \in {"acqE", "cmd", "cmd?"}

\* C27: no task waits for the engine guard or for an engine command while
\* it holds a guard of the Track Registry; add_to_queue has dropped its read
\* guard before it calls add_file_to_mpd.
C27_NoEngineWaitUnderRegistryLock ==
    \A t \in LockTasks : AwaitsEngine(t) => t \notin metaReaders \cup metaWriters

-----------------------------------------------------------------------------
(* The automatic start of playback by add_file_to_mpd *)

\* This step is a call of add_file_to_mpd that returns Ok: the engine has
\* handed out the id of the appended entry.
EnqueueReturnsOk ==
    /\ afDone'
    /\ afResult'.ok
    /\ afBefore' = EngineNow
    /\ mpdNextId' = mpdNextId + 1

-----------------------------------------------------------------------------
(* The queue_update that follows a change of the engine queue *)

\* remove_last_track_from_queue of task t has deleted the last entry of the
\* engine queue (mpd_manager.rs:26-29) and goes on to the registry.
RemovedEntry(t) ==
    /\ lkOp[t] # <<>>
    /\ Head(lkOp[t]).fn = "remove_last_track_from_queue"
    /\ NextStep(t) = "acqW"

\* add_file_to_mpd of task t, called by upload_music or add_to_queue, has
\* dropped the engine guard and returns Ok.
EnqueueSucceeded(t) ==
    /\ lkOp[t] # <<>>
    /\ Head(lkOp[t]).fn = "add_file_to_mpd"
    /\ NextStep(t) = "ret"

\* Task t is at its broadcast_message call.
Announces(t) == NextStep(t) = "bc"

\* C29: every remove_last_track_from_queue that removed an entry, and every
\* successful enqueue of an upload or of add_to_queue, is followed by the
\* queue_update broadcast of the task, and a task that broadcasts does not
\* hold the engine lock.
C29_QueueChangeIsAnnounced ==
    /\ [](\A t \in LockTasks : Announces(t) => t \notin engineHolders)
    /\ \A t \in ClientTasks : (RemovedEntry(t) \/ EnqueueSucceeded(t)) ~> Announces(t)

-----------------------------------------------------------------------------
(* The slot of a connection whose stream is being relayed *)

\* The connections of a source whose TrackedStream is being relayed.
Relaying(ip) == {c \in DOMAIN pc : pc[c] = "streaming" /\ ipOf[c] = ip}

-----------------------------------------------------------------------------
(* Deadlock between the engine lock and the Track Registry lock *)

\* The tasks whose guards keep task t from its next step: the holder of the
\* engine guard for "acqE", the writer for "acqR", the writer and the
\* readers for "acqW".
BlockedBy(t) ==
    IF NextStep(t) = "acqE" THEN engineHolders
    ELSE IF NextStep(t) = "acqR" THEN metaWriters
    ELSE IF NextStep(t) = "acqW" THEN metaWriters \cup metaReaders
    ELSE {}

\* A set of tasks each of which waits for a guard that only tasks of the
\* set hold: none of them ever runs again.
Deadlocked ==
    \E S \in SUBSET LockTasks :
        /\ S # {}
        /\ \A t \in S : BlockedBy(t) # {} /\ BlockedBy(t) \subseteq S

\* C31: no reachable state has tasks blocked for ever on each other through
\* the engine lock and the registry lock.
C31_NoDeadlock == ~Deadlocked

-----------------------------------------------------------------------------
(* Upload requests served at the same time (upload.rs:137-289) *)
(*                                                                         *)
(* upload_music awaits remove_last_track_from_queue, every chunk of the    *)
(* incoming file, the registry write guard and add_file_to_mpd; between    *)
(* those points another request runs.  The storage check and               *)
(* free_up_space are synchronous.                                          *)

NumUploads == 2
Uploaders == 1..NumUploads

exceptConcurrentUploads == <<trackerVars, wsVars, callVars, monitorVars, clientVars, afVars, fnVars, lockVars, ctVars>>

\* Uuid::new_v4() of each request: ids that differ from one another.
UploadTrackId(u) == <<<<"n", "p", "q", "r">>[u]>>

\* The stored name of the upload of request u.
UploadFilename(u) == FinalFilename(UploadTrackId(u), <<"u", ".", "m">>)

\* upload.rs:161-167: the usage is compared with the budget.
ConcurrentBegin(u) ==
    /\ cuPc[u] = "start"
    /\ cuPc' = [cuPc EXCEPT ![u] = IF DirSize(files) >= max_storage THEN "remove_first" ELSE "free"]
    /\ UNCHANGED <<cuSize, cuFile, cuResponse>>
    /\ UNCHANGED <<engineVars, tracks_metadata, storageVars, uploadVars, exceptConcurrentUploads>>

\* upload.rs:169 and 184: remove_last_track_from_queue(&state, true).
ConcurrentRemoveLast(u) ==
    /\ cuPc[u] \in {"remove_first", "remove_retry"}
    /\ \E queueOk, deleteOk \in BOOLEAN : RemoveLastTrackFromQueue(queueOk, deleteOk)
    /\ cuPc' = [cuPc EXCEPT ![u] = IF cuPc[u] = "remove_first" THEN "free" ELSE "free_retry"]
    /\ UNCHANGED <<cuSize, cuFile, cuResponse>>
    /\ UNCHANGED <<upPc, upSize, upStart, upFile, upResponse, max_storage, exceptConcurrentUploads>>

\* upload.rs:174 and 189: free_up_space(MAX_FILE_SIZE).
ConcurrentFreeSpace(u) ==
    /\ cuPc[u] \in {"free", "free_retry"}
    /\ \E out \in FreeUpSpace(files, MAX_FILE_SIZE, max_storage) :
         /\ files' = out.files
         /\ upDeleted' = upDeleted \o DeletedBy(out)
         /\ IF out.ok THEN cuPc' = [cuPc EXCEPT ![u] = "write"] /\ UNCHANGED cuResponse
            ELSE IF cuPc[u] = "free"
              THEN cuPc' = [cuPc EXCEPT ![u] = "remove_retry"] /\ UNCHANGED cuResponse
            ELSE /\ cuPc' = [cuPc EXCEPT ![u] = "done"]
                 /\ cuResponse' = [cuResponse EXCEPT ![u] = "insufficient_storage"]
    /\ UNCHANGED <<cuSize, cuFile>>
    /\ UNCHANGED <<upPc, upSize, upStart, upFile, upNotes, upResponse, rlResult, max_storage>>
    /\ UNCHANGED <<engineVars, tracks_metadata, exceptConcurrentUploads>>

\* upload.rs:209-268: the file is created and its chunks are written (a
\* file within the size limit, all chunks arriving), then the track is
\* registered.
ConcurrentWrite(u) ==
    /\ cuPc[u] = "write"
    /\ files' = Put(files, UploadFilename(u), [size |-> cuSize[u], mtime |-> Now(files)])
    /\ cuFile' = [cuFile EXCEPT ![u] = Some(UploadFilename(u))]
    /\ tracks_metadata' = Put(tracks_metadata, UploadTrackId(u),
                              [id |-> UploadTrackId(u), filename |-> UploadFilename(u)])
    /\ cuPc' = [cuPc EXCEPT ![u] = "enqueue"]
    /\ UNCHANGED <<cuSize, cuResponse>>
    /\ UNCHANGED <<engineVars, max_storage, uploadVars, exceptConcurrentUploads>>

\* upload.rs:270-289: add_file_to_mpd and the answer.
ConcurrentEnqueue(u) ==
    /\ cuPc[u] = "enqueue"
    /\ \E failAt \in {NoFailure, CmdAdd} :
         LET r == AddFileToMpd(EngineNow, cuFile[u][1], failAt, TRUE)
         IN  /\ EngineBecomes(r.engine)
             /\ upNotes' = IF r.ok THEN Append(upNotes, "queue_update") ELSE upNotes
             /\ cuResponse' = [cuResponse EXCEPT ![u] = IF r.ok THEN "ok" ELSE "error"]
    /\ cuPc' = [cuPc EXCEPT ![u] = "done"]
    /\ UNCHANGED <<cuSize, cuFile>>
    /\ UNCHANGED <<upPc, upSize, upStart, upDeleted, upFile, upResponse, rlResult>>
    /\ UNCHANGED <<tracks_metadata, storageVars, exceptConcurrentUploads>>

\* The directories the requests may find: one or two registered tracks of
\* the largest size, both queued.
ConcurrentDirectories ==
    {[n \in {FileA} |-> [size |-> MAX_FILE_SIZE, mtime |-> 1]],
     [n \in {FileA, FileC} |-> [size |-> MAX_FILE_SIZE, mtime |-> IF n = FileA THEN 1 ELSE 2]]}

InitConcurrentUploads ==
    /\ TrackerStart({})
    /\ files \in ConcurrentDirectories
    /\ max_storage \in {MAX_FILE_SIZE, DEFAULT_MAX_TOTAL_STORAGE}
    /\ DirSize(files) <= max_storage
    /\ mpdQueue = IF FileC \in DOMAIN files THEN <<Song(1, FileA), Song(2, FileC)>>
                  ELSE <<Song(1, FileA)>>
    /\ mpdCurrent = 1
    /\ mpdState = "play"
    /\ mpdNextId = Len(mpdQueue) + 1
    /\ tracks_metadata = RegistryOf(files)
    /\ WsStart
    /\ CallsIdle
    /\ UploadIdle
    /\ MonitorStart
    /\ ClientIdle
    /\ EnqueueCallIdle
    /\ FilenameIdle
    /\ LocksIdle
    /\ CurrentTrackCallIdle
    /\ cuPc = [u \in Uploaders |-> "start"]
    /\ cuSize \in [Uploaders -> {40, MAX_FILE_SIZE}]
    /\ cuFile = [u \in Uploaders |-> None]
    /\ cuResponse = [u \in Uploaders |-> "none"]

NextConcurrentUploads ==
    \E u \in Uploaders :
        \/ ConcurrentBegin(u)
        \/ ConcurrentRemoveLast(u)
        \/ ConcurrentFreeSpace(u)
        \/ ConcurrentWrite(u)
        \/ ConcurrentEnqueue(u)

SpecConcurrentUploads == InitConcurrentUploads /\ [][NextConcurrentUploads]_vars

\* C32: once the uploads served at the same time have all completed, the
\* usage of the uploads directory is within the budget.
C32_UsageWithinBudget ==
    (\A u \in Uploaders : cuPc[u] = "done") => DirSize(files) <= max_storage

-----------------------------------------------------------------------------
(* free_up_space returning failure (upload.rs:96-135) *)

\* C33: a call of free_up_space that returns failure has deleted no file:
\* the stored files are those found when it was called.
C33_FailureDeletesNothing ==
    fsDone /\ ~fsResult.ok => files = fsBefore

-----------------------------------------------------------------------------
(* The filename the monitor remembers (mpd_manager.rs:419-481) *)

\* C34: at the end of every tick whose status fetch succeeded, the
\* remembered previous filename is the current filename the tick observed.
C34_RemembersObservedFilename ==
    TickEnded /\ StatusFetched => previous_track_filename = tickFile

-----------------------------------------------------------------------------
(* What a monitor tick does to the engine queue (mpd_manager.rs:433-507) *)

\* The two queues hold the same entries, each as many times.
SameEntries(q1, q2) ==
    /\ Len(q1) = Len(q2)
    /\ \A x \in SeqRange(q1) \cup SeqRange(q2) :
         Cardinality({i \in 1..Len(q1) : q1[i] = x}) = Cardinality({i \in 1..Len(q2) : q2[i] = x})

\* q2 is q1 with one entry of this file taken out and put back last.
MovedLast(q1, q2, file) ==
    \E i \in 1..Len(q1) :
        /\ q1[i].file = file
        /\ q2 = Append(RemoveAt(q1, i - 1), q1[i])

MovesIn(cmds) == Cardinality({i \in 1..Len(cmds) : cmds[i].cmd = "move"})

-----------------------------------------------------------------------------
(* The "no music in queue" answer of stream_proxy (stream.rs:195-213) *)

\* C36: a stream request is answered "no music in queue" only when the
\* engine queue has no entries at all.
C36_RejectedOnlyWhenQueueEmpty ==
    \A c \in Conns : outcome[c] = "queue_empty" => mpdQueue = <<>>

-----------------------------------------------------------------------------
(* What an upload that fails leaves behind (upload.rs:217-276) *)

\* C37: an upload that does not return success leaves no file of its own in
\* storage, no entry of its own in the Track Registry and none in the
\* engine queue.
C37_FailedUploadLeavesNothing ==
    upPc = "done" /\ upResponse # "ok" =>
        /\ NewTrackId \notin DOMAIN tracks_metadata
        /\ upFile # None =>
             /\ upFile[1] \notin DOMAIN files
             /\ \A i \in 1..Len(mpdQueue) : mpdQueue[i].file # upFile[1]

-----------------------------------------------------------------------------
(* The engine queue and the files in storage (upload.rs:96-135, 161-199) *)

\* Every entry of the engine queue refers to a stored file.
QueuedFilesStored(queue, fs) == \A i \in 1..Len(queue) : queue[i].file \in DOMAIN fs

\* C38: no step of an upload, its evictions included, leaves a queue entry
\* whose file is gone: when every entry referred to a stored file before
\* the step, every entry does after it.
C38_QueuedFilesStayStored ==
    [][QueuedFilesStored(mpdQueue, files) => QueuedFilesStored(mpdQueue', files')]_vars

-----------------------------------------------------------------------------
(* Storage reclamation and the track being played (mpd_manager.rs:12-73, upload.rs:96-135) *)

\* C39: no step of an upload removes the track being played: when the
\* engine plays a song whose file is stored, its queue entry is still in
\* the queue after the step and its file is still stored.
C39_PlayingTrackSurvives ==
    [][\A i \in 1..Len(mpdQueue) :
         mpdState = "play" /\ mpdQueue[i].id = mpdCurrent /\ mpdQueue[i].file \in DOMAIN files =>
             /\ \E j \in 1..Len(mpdQueue') : mpdQueue'[j] = mpdQueue[i]
             /\ mpdQueue[i].file \in DOMAIN files']_vars

====
